---- MODULE Spec2Model ----
(***************************************************************************)
(* The per-request payment pipeline of the x402 gateway                    *)
(* (src/src/middleware/x402.js), the key-value store policies it uses      *)
(* (src/unnamed/part_004, the module imported as ../utils/redis.js), and   *)
(* the proxy step that follows next() (src/unnamed/part_003, src/proxy.js).*)
(*                                                                         *)
(* Every request is a process.  Each action is the code between two        *)
(* suspension points (await) of the middleware, together with the single   *)
(* store or chain operation that ends it, so two requests interleave       *)
(* exactly where two invocations of the middleware can.  A field of the    *)
(* payment envelope is bound by the step that first reads it.              *)
(*                                                                         *)
(* Records are modelled inside their TTL window: the TTL each write sets   *)
(* is part of the record, the passing of time is not modelled.             *)
(***************************************************************************)
EXTENDS Integers, FiniteSets, Sequences, TLC

\* ------------------------------------------------------------------ bounds
NumRequests == 2          \* requests in flight at once (slots are reused)
MaxTx == 3                \* successful settlements in one behaviour
maxCreditsPerPayer == 2   \* the route's credit cap (a route setting)
NumCallers == 3           \* callers of getSvmFacilitator at once (slots are reused)
Ticks == 3                \* steps of the clock in one credit TTL

\* ------------------------------------------------------- program constants
NONCE_PENDING_TTL == 3600
NONCE_CONFIRMED_TTL == 604800
IDEMPOTENCY_TTL == 3600
creditTtl == 86400        \* CREDIT_DEFAULTS.creditTtl, seconds

\* --------------------------------------------------------------- universes
None == "none"
Req == 1..NumRequests

\* Addresses as strings.  "A" is a mixed-case spelling of the account "a".
Payers == {"a", "b"}
Addrs == {"a", "A", "b"}
toLowerCase(x) == IF x = "A" THEN "a" ELSE x

Routes == {"r1", "r2"}
PaymentIds == {"p1"}
Nonces == {"n1", "n2"}

\* The three kinds of active network: local EVM (e.g. BASE), EVM behind an
\* external facilitator (MEGAETH), SVM (SOLANA_MAINNET).
Networks == {"evm", "fac", "svm"}
isSvmNetwork(net) == net = "svm"
useEvmFacilitator(net) == ~isSvmNetwork(net) /\ net = "fac"

\* sha256 of the transaction blob, as an injective map on the blobs modelled,
\* and the SVM nonce key built from it.
sha256(tx) == IF tx = "n1" THEN "h1" ELSE "h2"
svmNonceKey(tx) == "svm:" \o sha256(tx)
NonceKeys == Nonces \cup {svmNonceKey(tx) : tx \in Nonces}

\* The authorization nonce is the key on every EVM path.
nonceKeyOfEveryEvm(net, nonce) == IF isSvmNetwork(net) THEN svmNonceKey(nonce) ELSE nonce

\* x402PaymentMiddleware: the nonce key of a request (null on the facilitator path).
nonceKeyOf(net, nonce) ==
  IF isSvmNetwork(net) THEN svmNonceKey(nonce)
  ELSE IF ~useEvmFacilitator(net) THEN nonce
  ELSE None

creditOnStatusCodes == {500, 502, 503, 504}
BackendStatuses == {200, 503}

CreditKeys == Payers \X Routes
\* The key without the route: one counter per payer.
creditKeyNoRoute(payerAddress, routeKey) == <<toLowerCase(payerAddress), "r1">>
creditKey(payerAddress, routeKey) == <<toLowerCase(payerAddress), routeKey>>

\* ------------------------------------------------------------------ values
\* The PAYMENT-RESPONSE header: base64 of the JSON of the settlement summary.
\* txHash 0 stands for "no header".
NoHeader == [txHash |-> 0, network |-> None]
paymentResponseHeader(tx, net) == [txHash |-> tx, network |-> net]

\* The receipt of the last completed request served under a paymentId.
NoPrior == [any |-> FALSE, hdr |-> NoHeader]

NoNonce == [status |-> "absent", payer |-> None, route |-> None, ttl |-> 0, txHash |-> 0]

IdleReq ==
  [ pc |-> "idle", header |-> None, route |-> None, net |-> None, paymentId |-> None,
    nonceKey |-> None, payerAddress |-> None, signer |-> None,
    lookedUp |-> FALSE, verified |-> FALSE, idemHit |-> FALSE,
    creditConsumed |-> FALSE, acquired |-> FALSE, didSettle |-> FALSE,
    wroteCache |-> FALSE, issued |-> FALSE,
    paymentResponse |-> NoHeader, creditHeader |-> FALSE, paymentRequired |-> FALSE,
    outcome |-> None, status |-> 0, reason |-> None, finished |-> FALSE,
    settlementTx |-> 0, forwardedPayer |-> None,
    newCount |-> 0 - 1,   \* what incrementCredit resolved to, once it was called
    creditCount |-> 0,    \* what getCreditCount resolved to, once it was called
    rival |-> FALSE ]   \* history: verified while a request with the same nonce key was undecided

\* ----------------------------------------------------------------- amounts
\* Required amounts exceed 32 bits (10000 * 10^12), so a BigInt is the
\* sequence of its decimal digits, most significant first and without leading
\* zeros, and a decimal string is the sequence of its characters.
Chars == <<"0", "1", "2", "3", "4", "5", "6", "7", "8", "9">>
digitOf(c) == CHOOSE d \in 0..9 : Chars[d + 1] = c

\* n without its leading zeros; zero keeps one digit.
strip(n) ==
  LET nonzero == {i \in 1..Len(n) : n[i] # 0}
      first == IF nonzero = {} THEN Len(n)
               ELSE CHOOSE i \in nonzero : \A j \in nonzero : i <= j
  IN  SubSeq(n, first, Len(n))

\* BigInt(string): parses a decimal numeral, leading zeros allowed.
BigInt(str) == strip([i \in 1..Len(str) |-> digitOf(str[i])])

\* BigInt.prototype.toString()
toString(n) == SubSeq([i \in 1..Len(n) |-> Chars[n[i] + 1]], 1, Len(n))

\* The i-th digit of n counted from the right, 0 beyond its length.
digitAt(n, i) == IF i >= 1 /\ i <= Len(n) THEN n[Len(n) + 1 - i] ELSE 0

\* The sum of the digit products of a and b that fall on the k-th place from
\* the right, taken over the first i digits of a.
RECURSIVE column(_, _, _, _)
column(a, b, k, i) ==
  IF i = 0 THEN 0
  ELSE digitAt(a, i) * digitAt(b, k + 1 - i) + column(a, b, k, i - 1)

RECURSIVE carryInto(_, _, _)
carryInto(a, b, k) ==
  IF k = 1 THEN 0
  ELSE (column(a, b, k - 1, Len(a)) + carryInto(a, b, k - 1)) \div 10

\* a * b, by long multiplication
times(a, b) ==
  LET L == Len(a) + Len(b)
  IN  strip([j \in 1..L |->
        (column(a, b, L + 1 - j, Len(a)) + carryInto(a, b, L + 1 - j)) % 10])

\* base ** BigInt(e), for a Number e >= 0
RECURSIVE pow(_, _)
pow(base, e) == IF e = 0 THEN <<1>> ELSE times(pow(base, e - 1), base)

\* a <= b
lessOrEqual(a, b) ==
  \/ Len(a) < Len(b)
  \/ /\ Len(a) = Len(b)
     /\ \A i \in 1..Len(a) : a[i] > b[i] => \E j \in 1..(i - 1) : a[j] < b[j]

\* a < b
less(a, b) ==
  \/ Len(a) < Len(b)
  \/ /\ Len(a) = Len(b)
     /\ \E i \in 1..Len(a) : a[i] < b[i] /\ \A j \in 1..(i - 1) : a[j] = b[j]

basePriceDecimals == 6
ten == <<1, 0>>

\* The required amount, as each of the six places that needs it computes it.
\* verifyPaymentEvm keeps the BigInt, the others send its decimal string.
requiredAmount(priceAtomic, decimals) ==
  LET basePriceAtomic == BigInt(priceAtomic)
      decimalDiff == decimals - basePriceDecimals
  IN  IF decimalDiff > 0 THEN times(basePriceAtomic, pow(ten, decimalDiff))
      ELSE basePriceAtomic

amountRequiredUnscaled(priceAtomic, decimals) == toString(BigInt(priceAtomic))

amountRequiredInChallenge(priceAtomic, decimals) ==
  LET basePriceAtomic == BigInt(priceAtomic)
      decimalDiff == decimals - basePriceDecimals
  IN  IF decimalDiff > 0 THEN toString(times(basePriceAtomic, pow(ten, decimalDiff)))
      ELSE toString(basePriceAtomic)

amountRequiredFacilitatorVerify(priceAtomic, decimals) ==
  LET basePriceAtomic == BigInt(priceAtomic)
      decimalDiff == decimals - basePriceDecimals
  IN  IF decimalDiff > 0 THEN toString(times(basePriceAtomic, pow(ten, decimalDiff)))
      ELSE toString(basePriceAtomic)

amountRequiredFacilitatorSettle(priceAtomic, decimals) ==
  LET basePriceAtomic == BigInt(priceAtomic)
      decimalDiff == decimals - basePriceDecimals
  IN  IF decimalDiff > 0 THEN toString(times(basePriceAtomic, pow(ten, decimalDiff)))
      ELSE toString(basePriceAtomic)

amountRequiredSvmVerify(priceAtomic, decimals) ==
  LET basePriceAtomic == BigInt(priceAtomic)
      decimalDiff == decimals - basePriceDecimals
  IN  IF decimalDiff > 0 THEN toString(times(basePriceAtomic, pow(ten, decimalDiff)))
      ELSE toString(basePriceAtomic)

amountRequiredSvmSettle(priceAtomic, decimals) ==
  LET basePriceAtomic == BigInt(priceAtomic)
      decimalDiff == decimals - basePriceDecimals
  IN  IF decimalDiff > 0 THEN toString(times(basePriceAtomic, pow(ten, decimalDiff)))
      ELSE toString(basePriceAtomic)

\* getActiveNetworks: an entry of ALL_NETWORKS is active when its RPC variable
\* is set and, for an SVM entry, the facilitator key is set too.
getActiveNetworks(network, env) ==
  env.rpc /\ (network.vm = "svm" => env.svmKey)

\* The prices, token widths and authorization values tried. The shipped table
\* has widths 6 and 18; 2 and 8 stand for entries added to ALL_NETWORKS.
Prices == { <<"1", "0", "0", "0", "0">>, <<"0", "2", "5">>, <<"9", "9">>, <<"0">> }
Decimals == {2, 6, 8, 18}
Values ==
  { <<"0">>, <<"9", "9">>, <<"9", "9", "9", "9">>, <<"1", "0", "0", "0", "0">>,
    toString(<<9, 9, 9, 9, 9, 9, 9, 9, 9, 9, 9, 9, 9, 9, 9, 9>>),
    toString(<<1, 0, 0, 0, 0, 0, 0, 0, 0, 0, 0, 0, 0, 0, 0, 0, 0>>) }

\* No amount computed yet: the empty string of digits.
NoAmount == <<>>

\* One route price with one entry of the network table and the environment
\* it is loaded in, followed by what each step has computed from them so far.
Unpriced(price, network, env) ==
  [ priceAtomic |-> price, network |-> network, env |-> env,
    loaded |-> FALSE,       \* getActiveNetworks has run
    active |-> FALSE,       \* the entry is in SUPPORTED_NETWORKS
    challenged |-> FALSE,   \* buildPaymentRequired has run
    accepts |-> NoAmount,       \* amount of the entry in accepts, None without entry
    payTo |-> None,         \* payTo of that entry, None when it has none
    value |-> NoAmount,         \* authorization.value checked by the local verifier
    required |-> NoAmount,      \* requiredAmount of the local verifier
    verdict |-> None,       \* its answer to the amount check
    verifyAmount |-> NoAmount,  \* amount in the requirements sent for verify
    settleAmount |-> NoAmount ] \* amount in the requirements sent for settle

BASE == [vm |-> "evm", facilitator |-> FALSE, facilitatorContract |-> FALSE, decimals |-> 6]

Shipped ==
  [ Unpriced(<<"1", "0", "0", "0", "0">>, BASE,
             [rpc |-> TRUE, svmKey |-> FALSE, payTo |-> TRUE, payToSol |-> FALSE])
    EXCEPT !.loaded = TRUE, !.active = TRUE ]

\* ------------------------------------------------------- the SVM singleton
\* SOLANA_FACILITATOR_PRIVATE_KEY as the initialization meets it: not set,
\* not base58, not a key pair, a key pair without an address, or usable.
Keys == {"missing", "undecodable", "badbytes", "noaddress", "valid"}

Callers == 1..NumCallers
IdleCaller == [pc |-> "idle", awaits |-> 0, facilitator |-> 0, feePayerAddress |-> None,
               via |-> None]

\* The module state before the first call.  Facilitator instances and
\* promises are numbered by the construction that made them; 0 is null.
Uninitialized(key) ==
  [ key |-> key,
    _svmFacilitator |-> 0,
    _svmFacilitatorAddress |-> None,
    _svmInitPromise |-> 0,
    promises |-> <<>>,       \* state of the promise of each construction
    callers |-> [c \in Callers |-> IdleCaller] ]

\* The construction as far as it runs before its first await: it throws at
\* once for a key that is not set or not base58.
construction(key) == IF key \in {"missing", "undecodable"} THEN "rejected" ELSE "pending"

\* The call without the in-flight check: every first caller constructs.
getSvmFacilitatorNoInFlightCheck(s, c) ==
  IF s._svmFacilitator # 0
  THEN [s EXCEPT !.callers[c] = [pc |-> "returned", awaits |-> 0, via |-> "resolved",
                                 facilitator |-> s._svmFacilitator,
                                 feePayerAddress |-> s._svmFacilitatorAddress]]
  ELSE LET k == Len(s.promises) + 1
       IN  [s EXCEPT !._svmInitPromise = k,
                     !.promises = Append(@, construction(s.key)),
                     !.callers[c] = [IdleCaller EXCEPT !.pc = "awaiting", !.awaits = k]]

\* getSvmFacilitator up to its return: the resolved value, the promise in
\* flight, or a new promise whose construction has started.
getSvmFacilitator(s, c) ==
  IF s._svmFacilitator # 0
  THEN [s EXCEPT !.callers[c] = [pc |-> "returned", awaits |-> 0, via |-> "resolved",
                                 facilitator |-> s._svmFacilitator,
                                 feePayerAddress |-> s._svmFacilitatorAddress]]
  ELSE IF s._svmInitPromise # 0
  THEN [s EXCEPT !.callers[c] = [IdleCaller EXCEPT !.pc = "awaiting", !.awaits = s._svmInitPromise]]
  ELSE LET k == Len(s.promises) + 1
       IN  [s EXCEPT !._svmInitPromise = k,
                     !.promises = Append(@, construction(s.key)),
                     !.callers[c] = [IdleCaller EXCEPT !.pc = "awaiting", !.awaits = k]]

\* The rest of construction k, after its awaits: it publishes the instance
\* and clears _svmInitPromise, or it throws and the rejected promise stays.
constructed(s, k) ==
  IF s.key = "valid"
  THEN [s EXCEPT !._svmFacilitator = k, !._svmFacilitatorAddress = "feePayer",
                 !._svmInitPromise = 0, !.promises[k] = "fulfilled"]
  ELSE [s EXCEPT !.promises[k] = "rejected"]

\* await on promise k once it is settled: its value is the instance of
\* construction k, or its error.
awaited(s, c) ==
  LET k == s.callers[c].awaits
  IN  IF s.promises[k] = "fulfilled"
      THEN [s EXCEPT !.callers[c] = [pc |-> "returned", awaits |-> k, via |-> "promise",
                                     facilitator |-> k, feePayerAddress |-> "feePayer"]]
      ELSE [s EXCEPT !.callers[c] = [IdleCaller EXCEPT !.pc = "failed", !.awaits = k]]

\* ----------------------------------------------- the credit key in the store
\* One key x402:credit:{payer}:{route} as the store holds it: whether it
\* exists, its integer value, and the seconds it has left to live.  age is
\* the time since the last incrementCredit call that reached the store, and
\* last is the last call made on the key and what it returned.
NoCall == [op |-> None, ret |-> 0, count |-> 0, ttl |-> 0]
NoKey == [exists |-> FALSE, count |-> 0, ttl |-> 0]
NoCounter == [key |-> NoKey, age |-> 0, last |-> NoCall]

\* ------------------------------------------------------------------- state
VARIABLES
  storeUp,        \* whether a call to the key-value service succeeds right now
  creditEnabled,  \* ENABLE_CREDIT_SYSTEM === 'true'
  nonces,         \* x402:nonce:{key}
  idem,           \* x402:idempotency:{paymentId}
  credits,        \* x402:credit:{payer}:{route}
  nextTx,         \* the next transaction hash the chain hands out
  req,            \* the requests in flight
  submits,        \* history: settlement calls made, per nonce key (saturating)
  settledOk,      \* history: settlement calls that succeeded, per nonce key
  served,         \* history: requests served with a settlement receipt, per nonce key
  issuedCt,       \* history: increments that raised a counter, per credit key
  consumedCt,     \* history: decrements that returned true, per credit key
  lastServed,     \* history: receipt of the last request served with a receipt, per paymentId
  creditable,     \* history: settled requests whose response earns a credit, per credit key
  pricing,        \* one route price and one network entry, and the amounts each step used
  svmInit,        \* _svmFacilitator, _svmInitPromise and the callers of getSvmFacilitator
  counter         \* one credit key with its time to live, and the last call made on it

vars == <<storeUp, creditEnabled, nonces, idem, credits, nextTx, req,
          submits, settledOk, served, issuedCt, consumedCt, lastServed, creditable,
          pricing, svmInit, counter>>

settings == <<creditEnabled, pricing, svmInit, counter>>

store == <<nonces, idem, credits>>
history == <<submits, settledOk, served, issuedCt, consumedCt, lastServed, creditable>>

Serving ==
  /\ storeUp = TRUE
  /\ creditEnabled \in BOOLEAN
  /\ nonces = [k \in NonceKeys |-> NoNonce]
  /\ idem = [p \in PaymentIds |-> NoHeader]
  /\ credits = [c \in CreditKeys |-> 0]
  /\ nextTx = 1
  /\ req = [r \in Req |-> IdleReq]
  /\ submits = [k \in NonceKeys |-> 0]
  /\ settledOk = [k \in NonceKeys |-> 0]
  /\ served = [k \in NonceKeys |-> 0]
  /\ issuedCt = [c \in CreditKeys |-> 0]
  /\ consumedCt = [c \in CreditKeys |-> 0]
  /\ lastServed = [p \in PaymentIds |-> NoPrior]
  /\ creditable = [c \in CreditKeys |-> 0]

\* The shipped table: Base USDC, priced at the default 10000 atomic units.
Init ==
  /\ Serving
  /\ pricing = Shipped
  /\ svmInit = Uninitialized("missing")
  /\ counter = NoCounter

\* ------------------------------------------------- the key-value policies
\* Reads fail open (a failed call reads as absent / zero), writes take no
\* effect when the call fails.
\* A failed read is reported as a record of unknown status.
getNonceFailClosed(k) == IF storeUp THEN nonces[k] ELSE [NoNonce EXCEPT !.status = "unknown"]

\* A lookup under the wrong key finds no record.
getNonceWrongKey(k) == NoNonce
getNonce(k) == IF storeUp THEN nonces[k] ELSE NoNonce

\* The catch block of the reservation returns true.
setNoncePendingFailOpen(k) == ~storeUp \/ nonces[k].status = "absent"

\* The SET without NX.
setNoncePendingNoNx(k) == storeUp

\* SET key value NX EX 3600: true iff the caller created the record.
setNoncePending(k) == storeUp /\ nonces[k].status = "absent"
pendingRecord(payerAddress, routeKey) ==
  [status |-> "pending", payer |-> payerAddress, route |-> routeKey,
   ttl |-> NONCE_PENDING_TTL, txHash |-> 0]

\* The record is dropped after settlement instead of being confirmed.
setNonceConfirmedDrops(k, payer, routeKey, tx) ==
  IF storeUp THEN [nonces EXCEPT ![k] = NoNonce] ELSE nonces

\* SET key value EX 604800 (unconditional); a failed call is logged only.
setNonceConfirmed(k, payer, routeKey, tx) ==
  IF storeUp
  THEN [nonces EXCEPT ![k] = [status |-> "confirmed", payer |-> payer, route |-> routeKey,
                              ttl |-> NONCE_CONFIRMED_TTL, txHash |-> tx]]
  ELSE nonces

\* The catch block answers 402 without the DEL.
deleteNonceSkipped(k) == nonces

\* DEL key; a failed call is logged only.
deleteNonce(k) == IF storeUp THEN [nonces EXCEPT ![k] = NoNonce] ELSE nonces

\* A lookup under the wrong prefix finds no record.
getIdempotencyCacheWrongPrefix(p) == NoHeader
getIdempotencyCache(p) == IF storeUp THEN idem[p] ELSE NoHeader
setIdempotencyCache(p, hdr) == IF storeUp THEN [idem EXCEPT ![p] = hdr] ELSE idem

getCreditCount(payerAddress, routeKey) ==
  IF storeUp THEN credits[creditKey(payerAddress, routeKey)] ELSE 0

\* The script answers 1 without the DECR.
decrementScriptNoDecr(count) == [count |-> count, ret |-> IF count > 0 THEN 1 ELSE 0]

\* The Lua script of decrementCredit: 1 iff the count was positive and was decremented.
decrementScript(count) == IF count > 0 THEN [count |-> count - 1, ret |-> 1] ELSE [count |-> count, ret |-> 0]
\* The decrement takes effect although the call to the store fails.
decrementCreditIgnoresOutage(payerAddress, routeKey) ==
  decrementScript(credits[creditKey(payerAddress, routeKey)])

decrementCredit(payerAddress, routeKey) ==
  IF storeUp
  THEN decrementScript(credits[creditKey(payerAddress, routeKey)])
  ELSE [count |-> credits[creditKey(payerAddress, routeKey)], ret |-> 0]

\* The script without the comparison against the cap.
incrementScriptNoCap(count, maxCredits) == [count |-> count + 1, ret |-> count + 1]

\* The Lua script of incrementCredit: INCR only below the cap, return the count.
incrementScript(count, maxCredits) ==
  IF count < maxCredits THEN [count |-> count + 1, ret |-> count + 1] ELSE [count |-> count, ret |-> count]
incrementCredit(payerAddress, routeKey, maxCredits) ==
  IF storeUp
  THEN incrementScript(credits[creditKey(payerAddress, routeKey)], maxCredits)
  ELSE [count |-> credits[creditKey(payerAddress, routeKey)], ret |-> 0 - 1]

\* ------------------------------------------- the scripts on the credit key
\* redis.call('EXPIRE', KEYS[1], seconds): no effect on a key that does not exist.
EXPIRE(key, seconds) == IF key.exists THEN [key EXCEPT !.ttl = seconds] ELSE key

\* The script with the EXPIRE inside the if: only an increment refreshes.
incrementEvalExpiresOnIncr(key, maxCredits, ttlSeconds) ==
  LET i == incrementScript(key.count, maxCredits)
      written == [key EXCEPT !.exists = (key.exists \/ i.count # key.count), !.count = i.count]
  IN  [key |-> IF i.count # key.count THEN EXPIRE(written, ttlSeconds) ELSE written, ret |-> i.ret]

\* The Lua script of incrementCredit on the key: GET (nil reads as 0), INCR
\* below the cap (it creates a key that does not exist), then EXPIRE.
incrementEval(key, maxCredits, ttlSeconds) ==
  LET i == incrementScript(key.count, maxCredits)
      written == [key EXCEPT !.exists = (key.exists \/ i.count # key.count), !.count = i.count]
  IN  [key |-> EXPIRE(written, ttlSeconds), ret |-> i.ret]

\* The script with an EXPIRE after the DECR.
decrementEvalRefreshes(key) ==
  LET d == decrementScript(key.count)
  IN  [key |-> IF d.ret = 1 THEN EXPIRE([key EXCEPT !.count = d.count], creditTtl)
               ELSE key,
       ret |-> d.ret]

\* The Lua script of decrementCredit on the key: DECR when the value is
\* positive; a DECR leaves the time to live of the key as it is.
decrementEval(key) ==
  LET d == decrementScript(key.count)
  IN  [key |-> [key EXCEPT !.count = d.count], ret |-> d.ret]

\* ------------------------------------------------------------ the verifiers
Valid(payer) == [valid |-> TRUE, reason |-> None, payer |-> payer]
Invalid(reason) == [valid |-> FALSE, reason |-> reason, payer |-> None]

\* verifyPaymentEvm, in the order of its checks.  fields names the first of
\* the scheme / amount / recipient / validity-window checks that fails, or
\* "ok"; bal is the outcome of the balance read.  It returns no payer.
verifyPaymentEvm(fields, existing, from, signer, bal) ==
  IF fields = "scheme" THEN Invalid("Unsupported scheme")
  ELSE IF fields = "amount" THEN Invalid("Insufficient payment")
  ELSE IF fields = "recipient" THEN Invalid("Wrong recipient")
  ELSE IF fields = "window" THEN Invalid("Payment expired")
  ELSE IF existing.status # "absent" THEN Invalid("Nonce already used (" \o existing.status \o ")")
  ELSE IF toLowerCase(from) # signer THEN Invalid("Signature does not match sender")
  ELSE IF bal = "low" THEN Invalid("Insufficient balance")
  ELSE Valid(None)

\* verifyPaymentViaFacilitator: answer names what POST {url}/verify gave back
\* and payer the payer it reported (none when the response names none).
verifyPaymentViaFacilitator(answer, payer) ==
  IF answer = "nokey" THEN Invalid("No API key for facilitator")
  ELSE IF answer = "nonjson" THEN Invalid("Facilitator returned non-JSON")
  ELSE IF answer = "httperror" THEN Invalid("Facilitator error")
  ELSE IF answer = "valid" THEN Valid(payer)
  ELSE Invalid("Facilitator rejected payment")

\* verifyPaymentSvm: answer names what facilitator.verify gave back.
verifyPaymentSvm(answer, payer) ==
  IF answer = "nopayto" THEN Invalid("No Solana payTo address configured")
  ELSE IF answer = "throws" THEN Invalid("SVM verification error")
  ELSE IF answer = "valid" THEN Valid(payer)
  ELSE Invalid("SVM verification failed")

\* x402PaymentMiddleware: verification.payer || authorization.from || 'unknown'
payerAddressOf(verifiedPayer, from) ==
  IF verifiedPayer # None THEN verifiedPayer
  ELSE IF from # None THEN from
  ELSE "unknown"

isCreditSystemEnabled == creditEnabled
creditApplies(payerAddress) ==
  isCreditSystemEnabled /\ payerAddress # "unknown" /\ creditOnStatusCodes # {}

Sat(n) == IF n < 2 THEN n + 1 ELSE n
Bump(f, k) == IF k = None THEN f ELSE [f EXCEPT ![k] = Sat(@)]

\* ------------------------------------------------------------- the pipeline
\* The inputs a specification draws from: the requests clients send and the
\* answers the chain, the facilitator and the backend give.
Inputs ==
  [ routes |-> Routes,
    headers |-> {"absent", "garbled", "null", "empty", "ok"},
    paymentIds |-> PaymentIds \cup {None},
    nets |-> Networks \cup {"unsupported"},
    nonces |-> Nonces,
    froms |-> Addrs \cup {None},
    signers |-> Payers,
    fields |-> {"ok", "scheme", "amount", "recipient", "window"},
    balances |-> {"ok", "low", "rpcerror"},
    answers |-> {"nokey", "nonjson", "httperror", "nopayto", "throws", "invalid", "valid"},
    reportsPayer |-> BOOLEAN,
    settles |-> BOOLEAN,
    statuses |-> BackendStatuses,
    xPayerHeaders |-> {None, "b"} ]

Set(r, rec) == req' = [req EXCEPT ![r] = rec]

\* res.status(code).json(...): the middleware answers itself; next() is not called.
Reject(rec, code, reason, challenge) ==
  [rec EXCEPT !.pc = "done", !.outcome = "rejected", !.status = code, !.reason = reason,
              !.paymentRequired = challenge, !.finished = TRUE]

\* An exception leaves the middleware: no statement after the throwing one
\* runs, and the framework answers 500 or, when it does not catch the
\* rejected promise, the request gets no answer (status 0).
Throw(rec, code) ==
  [rec EXCEPT !.pc = "done", !.outcome = "threw", !.status = code, !.reason = "TypeError",
              !.finished = (code # 0)]

\* Where a verified request goes when no credit is consumed: to the nonce
\* reservation, or straight to settlement when it has no nonce key.
\* The settlement call is made without the reservation.
reservePcSkipsReservation(k) == "settle"

reservePc(k) == IF k # None THEN "reserve" ELSE "settle"

\* The branch taken when the header check passes although no payment header
\* is present: the request goes on to the handler.
missingHeaderProceeds(rec) == [rec EXCEPT !.pc = "next"]

\* if (!paymentHeader): the challenge is built and sent with 402.
missingHeader(rec) == Reject(rec, 402, "Payment required", TRUE)

\* A request arrives: header check, decoding, idempotency lookup, network
\* lookup (x402PaymentMiddleware up to "Determine payment path").
Start(r, in) ==
  /\ req[r].pc = "idle"
  /\ \E routeKey \in in.routes, header \in in.headers,
        paymentId \in in.paymentIds, net \in in.nets :
       LET rec == [req[r] EXCEPT !.route = routeKey, !.header = header]
           cached == IF paymentId # None THEN getIdempotencyCache(paymentId) ELSE NoHeader
           decoded == [rec EXCEPT !.paymentId = paymentId, !.lookedUp = (paymentId # None)]
       IN  IF header = "absent" THEN Set(r, missingHeader(rec))
           ELSE IF header = "garbled" THEN Set(r, Reject(rec, 400, "Invalid payment payload encoding", FALSE))
           ELSE IF header = "null" THEN \E code \in {0, 500} : Set(r, Throw(rec, code))
           ELSE IF header = "empty" THEN Set(r, Reject(rec, 402, "Unsupported network", FALSE))
           ELSE IF cached # NoHeader
             THEN Set(r, [decoded EXCEPT !.idemHit = TRUE, !.paymentResponse = cached, !.pc = "next"])
           ELSE IF net = "unsupported" THEN Set(r, Reject(decoded, 402, "Unsupported network", FALSE))
           ELSE Set(r, [decoded EXCEPT !.net = net, !.pc = "verify"])
  /\ UNCHANGED <<storeUp, settings, store, nextTx, history>>

\* The requests that are verified and not yet past the nonce reservation.
undecided(q) == req[q].verified /\ req[q].pc \in {"credit", "decrement", "reserve"}

\* The request leaves verification: rejected with the challenge re-emitted,
\* or verified with its payer address and nonce key fixed.
Verified(r, v, nonce, from, signer) ==
  LET rec == req[r]
      payerAddress == payerAddressOf(v.payer, from)
      k == nonceKeyOf(rec.net, nonce)
      rivals == {q \in Req \ {r} : k # None /\ undecided(q) /\ req[q].nonceKey = k}
      passed == [rec EXCEPT !.verified = TRUE, !.payerAddress = payerAddress,
                            !.signer = signer, !.nonceKey = k, !.rival = (rivals # {}),
                            !.pc = IF creditApplies(payerAddress) THEN "credit" ELSE reservePc(k)]
  IN  IF ~v.valid THEN Set(r, Reject([rec EXCEPT !.nonceKey = k], 402, v.reason, TRUE))
      ELSE req' = [q \in Req |-> IF q = r THEN passed
                                 ELSE IF q \in rivals THEN [req[q] EXCEPT !.rival = TRUE]
                                 ELSE req[q]]

\* The payer a verifier reports for a payment signed by signer, when it
\* reports one.
reportedPayer(reports, signer) == IF reports THEN signer ELSE None

\* The local verifier marks the nonce as seen while it checks it.
VerifyEvmMarksNonce(r, in) ==
  /\ req[r].pc = "verify" /\ req[r].net = "evm"
  /\ \E nonce \in in.nonces, from \in in.froms \ {None}, signer \in in.signers,
        fields \in in.fields, bal \in in.balances :
       /\ Verified(r, verifyPaymentEvm(fields, getNonce(nonce), from, signer, bal), nonce, from, signer)
       /\ nonces' = [nonces EXCEPT ![nonce] = pendingRecord(from, req[r].route)]
  /\ UNCHANGED <<storeUp, settings, idem, credits, nextTx, history>>

VerifyEvm(r, in) ==
  /\ req[r].pc = "verify" /\ req[r].net = "evm"
  /\ \E nonce \in in.nonces, from \in in.froms \ {None}, signer \in in.signers,
        fields \in in.fields, bal \in in.balances :
       Verified(r, verifyPaymentEvm(fields, getNonce(nonce), from, signer, bal), nonce, from, signer)
  /\ UNCHANGED <<storeUp, settings, store, nextTx, history>>

\* The facilitator accepts an authorization only when its signature recovers
\* to authorization.from.
VerifyFacilitator(r, in) ==
  /\ req[r].pc = "verify" /\ req[r].net = "fac"
  /\ \E nonce \in in.nonces, from \in in.froms \ {None}, signer \in in.signers,
        answer \in in.answers \ {"nopayto", "throws"}, reports \in in.reportsPayer :
       /\ answer = "valid" => toLowerCase(from) = signer
       /\ Verified(r, verifyPaymentViaFacilitator(answer, reportedPayer(reports, signer)),
                   nonce, from, signer)
  /\ UNCHANGED <<storeUp, settings, store, nextTx, history>>

\* The SVM library accepts a transaction only when signer signed it.
\* payload.authorization.from is a field the client may add to the payload;
\* the library does not read it.
VerifySvm(r, in) ==
  /\ req[r].pc = "verify" /\ req[r].net = "svm"
  /\ \E tx \in in.nonces, from \in in.froms, signer \in in.signers,
        answer \in in.answers \ {"nokey", "nonjson", "httperror"}, reports \in in.reportsPayer :
       Verified(r, verifyPaymentSvm(answer, reportedPayer(reports, signer)), tx, from, signer)
  /\ UNCHANGED <<storeUp, settings, store, nextTx, history>>

\* const creditCount = await getCreditCount(payerAddress, routeKey)
CreditCheck(r) ==
  /\ req[r].pc = "credit"
  /\ LET creditCount == getCreditCount(req[r].payerAddress, req[r].route)
     IN  Set(r, [req[r] EXCEPT !.creditCount = creditCount,
                               !.pc = IF creditCount > 0 THEN "decrement"
                                      ELSE reservePc(req[r].nonceKey)])
  /\ UNCHANGED <<storeUp, settings, store, nextTx, history>>

\* The settlement block runs whether or not a credit was consumed.
afterDecrementSettlesToo(rec, creditConsumed) ==
  [rec EXCEPT !.creditConsumed = creditConsumed, !.creditHeader = creditConsumed,
              !.pc = reservePc(rec.nonceKey)]

\* The idempotency write sits after the credit branch instead of inside the
\* settlement block.
afterDecrementCaches(rec, creditConsumed) ==
  IF creditConsumed
  THEN [rec EXCEPT !.creditConsumed = TRUE, !.creditHeader = TRUE,
                   !.pc = IF rec.paymentId # None THEN "cache" ELSE "next"]
  ELSE [rec EXCEPT !.pc = reservePc(rec.nonceKey)]

\* if (!creditConsumed) { reserve, settle } else { res.set('X-x402-Credit', 'consumed') }
afterDecrement(rec, creditConsumed) ==
  IF creditConsumed
  THEN [rec EXCEPT !.creditConsumed = TRUE, !.creditHeader = TRUE, !.pc = "next"]
  ELSE [rec EXCEPT !.pc = reservePc(rec.nonceKey)]

\* creditConsumed = await decrementCredit(payerAddress, routeKey)
Decrement(r) ==
  /\ req[r].pc = "decrement"
  /\ LET ck == creditKey(req[r].payerAddress, req[r].route)
         d == decrementCredit(req[r].payerAddress, req[r].route)
         creditConsumed == d.ret = 1
     IN  /\ credits' = [credits EXCEPT ![ck] = d.count]
         /\ consumedCt' = [consumedCt EXCEPT ![ck] = IF creditConsumed THEN @ + 1 ELSE @]
         /\ Set(r, afterDecrement(req[r], creditConsumed))
  /\ UNCHANGED <<storeUp, settings, nonces, idem, nextTx,
                 submits, settledOk, served, issuedCt, lastServed, creditable>>

\* The request that loses the reservation clears the key on its way out.
ReserveLoserDeletes(r) ==
  /\ req[r].pc = "reserve"
  /\ LET k == req[r].nonceKey
         acquired == setNoncePending(k)
     IN  /\ nonces' = IF acquired
                      THEN [nonces EXCEPT ![k] = pendingRecord(req[r].payerAddress, req[r].route)]
                      ELSE deleteNonce(k)
         /\ Set(r, IF acquired
                   THEN [req[r] EXCEPT !.acquired = TRUE, !.pc = "settle"]
                   ELSE Reject(req[r], 402, "Nonce already used or settlement in progress", FALSE))
  /\ UNCHANGED <<storeUp, settings, idem, credits, nextTx, history>>

\* const acquired = await setNoncePending(nonceKey, {...})
Reserve(r) ==
  /\ req[r].pc = "reserve"
  /\ LET k == req[r].nonceKey
         acquired == setNoncePending(k)
     IN  /\ nonces' = IF acquired
                      THEN [nonces EXCEPT ![k] = pendingRecord(req[r].payerAddress, req[r].route)]
                      ELSE nonces
         /\ Set(r, IF acquired
                   THEN [req[r] EXCEPT !.acquired = TRUE, !.pc = "settle"]
                   ELSE Reject(req[r], 402, "Nonce already used or settlement in progress", FALSE))
  /\ UNCHANGED <<storeUp, settings, idem, credits, nextTx, history>>

\* What follows a successful settlement once the nonce is dealt with: the
\* receipt header is set, then the idempotency record is written if the
\* request has a paymentId, then didSettle = true.
Receipt(rec) ==
  LET withHeader == [rec EXCEPT !.paymentResponse = paymentResponseHeader(rec.settlementTx, rec.net)]
  IN  IF rec.paymentId # None
      THEN [withHeader EXCEPT !.pc = "cache"]
      ELSE [withHeader EXCEPT !.didSettle = TRUE, !.pc = "next"]

\* settlePaymentEvm / settlePaymentViaFacilitator / settlePaymentSvm: the
\* call is made and either returns a settlement or throws.
Settle(r, in) ==
  /\ req[r].pc = "settle"
  /\ \E ok \in in.settles :
       LET k == req[r].nonceKey
           settled == [req[r] EXCEPT !.settlementTx = nextTx]
       IN  /\ ok => nextTx <= MaxTx
           /\ submits' = Bump(submits, k)
           /\ settledOk' = IF ok THEN Bump(settledOk, k) ELSE settledOk
           /\ nextTx' = IF ok THEN nextTx + 1 ELSE nextTx
           /\ Set(r, IF ok
                     THEN (IF k # None THEN [settled EXCEPT !.pc = "confirm"] ELSE Receipt(settled))
                     ELSE (IF k # None THEN [req[r] EXCEPT !.pc = "release"]
                           ELSE Reject(req[r], 402, "Payment settlement failed", FALSE)))
  /\ UNCHANGED <<storeUp, settings, store, served, issuedCt, consumedCt, lastServed, creditable>>

\* settlement.payer || payerAddress: only the SVM settlement names a payer.
settlementPayer(rec) == IF isSvmNetwork(rec.net) THEN rec.signer ELSE rec.payerAddress

\* A failed confirmation write is treated like a failed settlement.
ConfirmFatal(r) ==
  /\ req[r].pc = "confirm"
  /\ nonces' = setNonceConfirmed(req[r].nonceKey, settlementPayer(req[r]), req[r].route, req[r].settlementTx)
  /\ Set(r, IF storeUp THEN Receipt(req[r]) ELSE [req[r] EXCEPT !.pc = "release"])
  /\ UNCHANGED <<storeUp, settings, idem, credits, nextTx, history>>

\* await setNonceConfirmed(nonceKey, {...})
Confirm(r) ==
  /\ req[r].pc = "confirm"
  /\ nonces' = setNonceConfirmed(req[r].nonceKey, settlementPayer(req[r]), req[r].route, req[r].settlementTx)
  /\ Set(r, Receipt(req[r]))
  /\ UNCHANGED <<storeUp, settings, idem, credits, nextTx, history>>

\* await setIdempotencyCache(paymentId, {...}); didSettle = true
Cache(r) ==
  /\ req[r].pc = "cache"
  /\ idem' = setIdempotencyCache(req[r].paymentId, req[r].paymentResponse)
  /\ Set(r, [req[r] EXCEPT !.wroteCache = storeUp, !.didSettle = TRUE, !.pc = "next"])
  /\ UNCHANGED <<storeUp, settings, nonces, credits, nextTx, history>>

\* catch (err) { if (nonceKey) await deleteNonce(nonceKey); return 402 }
Release(r) ==
  /\ req[r].pc = "release"
  /\ nonces' = deleteNonce(req[r].nonceKey)
  /\ Set(r, Reject(req[r], 402, "Payment settlement failed", FALSE))
  /\ UNCHANGED <<storeUp, settings, idem, credits, nextTx, history>>

\* proxyToBackend: headers['X-x402-Payer'] = req.headers['x-x402-payer'] || 'unknown'
forwardedPayerOf(xPayerHeader) == IF xPayerHeader # None THEN xPayerHeader ELSE "unknown"

\* The listener is registered without the didSettle condition.
issuesCreditWithoutSettlement(rec, statusCode) ==
  /\ creditApplies(rec.payerAddress)
  /\ statusCode \in creditOnStatusCodes

\* res.on('finish'): whether the finished response schedules incrementCredit.
issuesCredit(rec, statusCode) ==
  /\ rec.didSettle
  /\ creditApplies(rec.payerAddress)
  /\ statusCode \in creditOnStatusCodes

\* next(): the route handler proxies to the backend and the response
\* finishes with the backend's status; the 'finish' listener then runs.
Backend(r, in) ==
  /\ req[r].pc = "next"
  /\ \E statusCode \in in.statuses, xPayerHeader \in in.xPayerHeaders :
       LET rec == req[r]
           k == rec.nonceKey
       IN  /\ Set(r, [rec EXCEPT !.outcome = "proceed", !.status = statusCode, !.finished = TRUE,
                                 !.forwardedPayer = forwardedPayerOf(xPayerHeader),
                                 !.pc = IF issuesCredit(rec, statusCode) THEN "issue" ELSE "done"])
           /\ served' = IF rec.didSettle THEN Bump(served, k) ELSE served
           /\ lastServed' = IF rec.paymentId # None /\ rec.paymentResponse # NoHeader
                            THEN [lastServed EXCEPT ![rec.paymentId] = [any |-> TRUE, hdr |-> rec.paymentResponse]]
                            ELSE lastServed
           /\ creditable' = IF /\ rec.didSettle /\ statusCode \in creditOnStatusCodes
                               /\ creditApplies(rec.payerAddress)
                            THEN [creditable EXCEPT ![creditKey(rec.payerAddress, rec.route)] = @ + 1]
                            ELSE creditable
  /\ UNCHANGED <<storeUp, settings, store, nextTx,
                 submits, settledOk, issuedCt, consumedCt>>

\* incrementCredit(payerAddress, routeKey, maxCreditsPerPayer, creditTtl),
\* called from the 'finish' listener; its result is only logged.
Issue(r) ==
  /\ req[r].pc = "issue"
  /\ LET ck == creditKey(req[r].payerAddress, req[r].route)
         i == incrementCredit(req[r].payerAddress, req[r].route, maxCreditsPerPayer)
     IN  /\ credits' = [credits EXCEPT ![ck] = i.count]
         /\ issuedCt' = [issuedCt EXCEPT ![ck] = IF i.count > credits[ck] THEN @ + 1 ELSE @]
         /\ Set(r, [req[r] EXCEPT !.issued = (i.ret >= 0), !.newCount = i.ret, !.pc = "done"])
  /\ UNCHANGED <<storeUp, settings, nonces, idem, nextTx,
                 submits, settledOk, served, consumedCt, lastServed, creditable>>

\* The request is over; its slot takes the next request.
Reset(r) ==
  /\ req[r].pc = "done"
  /\ Set(r, IdleReq)
  /\ UNCHANGED <<storeUp, settings, store, nextTx, history>>

\* The key-value service becomes unreachable, or reachable again.
StoreFails ==
  /\ storeUp
  /\ storeUp' = FALSE
  /\ UNCHANGED <<settings, store, nextTx, req, history>>

StoreRecovers ==
  /\ ~storeUp
  /\ storeUp' = TRUE
  /\ UNCHANGED <<settings, store, nextTx, req, history>>

\* The steps every path shares.
Pipeline(in) ==
  \/ \E r \in Req : Start(r, in)
  \/ \E r \in Req : Settle(r, in)
  \/ \E r \in Req : Backend(r, in)
  \/ \E r \in Req : Reset(r)

\* ------------------------------------------------------- the specifications
\* Replay protection: one envelope per tracked path, sent again and again by
\* two clients at once, on the local EVM and the SVM path.
ReplayInputs ==
  [Inputs EXCEPT !.routes = {"r1"}, !.headers = {"ok"}, !.paymentIds = {None},
                 !.nets = {"evm", "svm"}, !.nonces = {"n1"}, !.froms = {"a"},
                 !.signers = {"a"}, !.fields = {"ok", "amount"}, !.balances = {"ok"},
                 !.answers = {"invalid", "valid"}, !.reportsPayer = {TRUE},
                 !.xPayerHeaders = {None}]

Next ==
  \/ Pipeline(ReplayInputs)
  \/ \E r \in Req : VerifyEvm(r, ReplayInputs)
  \/ \E r \in Req : VerifySvm(r, ReplayInputs)
  \/ \E r \in Req : CreditCheck(r)
  \/ \E r \in Req : Decrement(r)
  \/ \E r \in Req : Reserve(r)
  \/ \E r \in Req : Confirm(r)
  \/ \E r \in Req : Release(r)
  \/ \E r \in Req : Issue(r)
  \/ StoreFails
  \/ StoreRecovers

Spec == Init /\ [][Next]_vars

\* Idempotency on the local EVM path: one payer, one nonce, with or without
\* a paymentId, envelopes that pass or fail verification.
PayInputs ==
  [Inputs EXCEPT !.routes = {"r1"}, !.headers = {"ok"}, !.nets = {"evm"},
                 !.nonces = {"n1"}, !.froms = {"a"}, !.signers = {"a"},
                 !.fields = {"ok", "amount"}, !.balances = {"ok"},
                 !.xPayerHeaders = {None}]

NextPay ==
  \/ Pipeline(PayInputs)
  \/ \E r \in Req : VerifyEvm(r, PayInputs)
  \/ \E r \in Req : CreditCheck(r)
  \/ \E r \in Req : Decrement(r)
  \/ \E r \in Req : Reserve(r)
  \/ \E r \in Req : Confirm(r)
  \/ \E r \in Req : Cache(r)
  \/ \E r \in Req : Release(r)
  \/ \E r \in Req : Issue(r)
  \/ StoreFails
  \/ StoreRecovers

SpecPay == Init /\ [][NextPay]_vars

\* Credits: one payer on one route paying through the external facilitator,
\* where every envelope can settle, with or without a paymentId.
CreditInputs ==
  [Inputs EXCEPT !.routes = {"r1"}, !.headers = {"ok"}, !.nets = {"fac"},
                 !.nonces = {"n1"}, !.froms = {"a"}, !.signers = {"a"},
                 !.answers = {"valid"}, !.reportsPayer = {TRUE},
                 !.xPayerHeaders = {None}]

NextCredit ==
  \/ Pipeline(CreditInputs)
  \/ \E r \in Req : VerifyFacilitator(r, CreditInputs)
  \/ \E r \in Req : CreditCheck(r)
  \/ \E r \in Req : Decrement(r)
  \/ \E r \in Req : Cache(r)
  \/ \E r \in Req : Issue(r)
  \/ StoreFails
  \/ StoreRecovers

SpecCredit == Init /\ [][NextCredit]_vars

\* Payer identity: one SVM payment signed by "a", whose payload may carry an
\* authorization.from of the client's choosing, a verifier that names the
\* payer or not, and requests with or without an X-x402-Payer header.
PayerInputs ==
  [Inputs EXCEPT !.routes = {"r1"}, !.headers = {"ok"}, !.paymentIds = {None},
                 !.nets = {"svm"}, !.nonces = {"n1"}, !.froms = {None, "b"},
                 !.signers = {"a"}, !.answers = {"valid"}]

NextPayer ==
  \/ Pipeline(PayerInputs)
  \/ \E r \in Req : VerifySvm(r, PayerInputs)
  \/ \E r \in Req : CreditCheck(r)
  \/ \E r \in Req : Decrement(r)
  \/ \E r \in Req : Reserve(r)
  \/ \E r \in Req : Confirm(r)
  \/ \E r \in Req : Release(r)
  \/ \E r \in Req : Issue(r)
  \/ StoreFails
  \/ StoreRecovers

SpecPayer == Init /\ [][NextPayer]_vars

\* Rejections: requests with and without a payment header, headers that do
\* not decode to an envelope, unsupported networks, and envelopes that fail
\* each check of the local EVM verifier.
RejectInputs ==
  [Inputs EXCEPT !.routes = {"r1"}, !.nets = {"evm", "unsupported"},
                 !.nonces = {"n1"}, !.froms = {"a", "b"}, !.signers = {"a"},
                 !.xPayerHeaders = {None}]

NextReject ==
  \/ Pipeline(RejectInputs)
  \/ \E r \in Req : VerifyEvm(r, RejectInputs)
  \/ \E r \in Req : CreditCheck(r)
  \/ \E r \in Req : Decrement(r)
  \/ \E r \in Req : Reserve(r)
  \/ \E r \in Req : Confirm(r)
  \/ \E r \in Req : Cache(r)
  \/ \E r \in Req : Release(r)
  \/ \E r \in Req : Issue(r)
  \/ StoreFails
  \/ StoreRecovers

SpecReject == Init /\ [][NextReject]_vars

\* Credit isolation: two payers on two routes paying through the external
\* facilitator, every envelope valid and every settlement successful.
IsolationInputs ==
  [Inputs EXCEPT !.headers = {"ok"}, !.paymentIds = {None}, !.nets = {"fac"},
                 !.nonces = {"n1"}, !.froms = {"a", "A", "b"}, !.answers = {"valid"},
                 !.reportsPayer = {TRUE}, !.settles = {TRUE}, !.xPayerHeaders = {None}]

NextIsolation ==
  \/ Pipeline(IsolationInputs)
  \/ \E r \in Req : VerifyFacilitator(r, IsolationInputs)
  \/ \E r \in Req : CreditCheck(r)
  \/ \E r \in Req : Decrement(r)
  \/ \E r \in Req : Issue(r)
  \/ StoreFails
  \/ StoreRecovers

SpecIsolation == Init /\ [][NextIsolation]_vars

\* Step order: one payer on one route paying on the local EVM path and
\* through the external facilitator, every envelope valid, with or without a
\* paymentId, and a backend that answers 200 (no credit is ever issued).
OrderInputs ==
  [Inputs EXCEPT !.routes = {"r1"}, !.headers = {"ok"}, !.nets = {"evm", "fac"},
                 !.nonces = {"n1"}, !.froms = {"a"}, !.signers = {"a"},
                 !.fields = {"ok"}, !.balances = {"ok"}, !.answers = {"valid"},
                 !.reportsPayer = {TRUE}, !.statuses = {200}, !.xPayerHeaders = {None}]

NextOrder ==
  \/ Pipeline(OrderInputs)
  \/ \E r \in Req : VerifyEvm(r, OrderInputs)
  \/ \E r \in Req : VerifyFacilitator(r, OrderInputs)
  \/ \E r \in Req : CreditCheck(r)
  \/ \E r \in Req : Reserve(r)
  \/ \E r \in Req : Confirm(r)
  \/ \E r \in Req : Cache(r)
  \/ \E r \in Req : Release(r)
  \/ StoreFails
  \/ StoreRecovers

SpecOrder == Init /\ [][NextOrder]_vars

\* Verification: one envelope per path on all three paths, with every
\* outcome of each verifier, sent by one payer; settlements succeed and the
\* backend answers 200.
VerifyInputs ==
  [Inputs EXCEPT !.routes = {"r1"}, !.headers = {"ok"}, !.paymentIds = {None},
                 !.nets = Networks, !.nonces = {"n1"}, !.froms = {"a", "b"},
                 !.signers = {"a"}, !.reportsPayer = {TRUE}, !.settles = {TRUE},
                 !.statuses = {200}, !.xPayerHeaders = {None}]

NextVerify ==
  \/ Pipeline(VerifyInputs)
  \/ \E r \in Req : VerifyEvm(r, VerifyInputs)
  \/ \E r \in Req : VerifyFacilitator(r, VerifyInputs)
  \/ \E r \in Req : VerifySvm(r, VerifyInputs)
  \/ \E r \in Req : CreditCheck(r)
  \/ \E r \in Req : Reserve(r)
  \/ \E r \in Req : Confirm(r)
  \/ StoreFails
  \/ StoreRecovers

SpecVerify == Init /\ [][NextVerify]_vars

\* The idempotency cache across routes: one payer sends envelopes that all
\* carry paymentId "p1" to two routes through the external facilitator, which
\* accepts or rejects them; settlements succeed and the backend answers 200.
CacheInputs ==
  [Inputs EXCEPT !.headers = {"ok"}, !.paymentIds = {"p1"}, !.nets = {"fac"},
                 !.nonces = {"n1"}, !.froms = {"a"}, !.signers = {"a"},
                 !.answers = {"invalid", "valid"}, !.reportsPayer = {TRUE},
                 !.settles = {TRUE}, !.statuses = {200}, !.xPayerHeaders = {None}]

NextCache ==
  \/ Pipeline(CacheInputs)
  \/ \E r \in Req : VerifyFacilitator(r, CacheInputs)
  \/ \E r \in Req : CreditCheck(r)
  \/ \E r \in Req : Cache(r)
  \/ StoreFails
  \/ StoreRecovers

SpecCache == Init /\ [][NextCache]_vars

\* Envelopes presented again: one payer on one route signs two
\* authorizations on the local EVM path and presents each any number of
\* times, with or without a paymentId; settlements succeed, the backend
\* answers 200 or 503, and the store stays reachable.
RedeemInputs ==
  [Inputs EXCEPT !.routes = {"r1"}, !.headers = {"ok"},
                 !.nets = {"evm"}, !.froms = {"a"}, !.signers = {"a"},
                 !.fields = {"ok"}, !.balances = {"ok"}, !.settles = {TRUE},
                 !.xPayerHeaders = {None}]

NextRedeem ==
  \/ Pipeline(RedeemInputs)
  \/ \E r \in Req : VerifyEvm(r, RedeemInputs)
  \/ \E r \in Req : CreditCheck(r)
  \/ \E r \in Req : Decrement(r)
  \/ \E r \in Req : Reserve(r)
  \/ \E r \in Req : Confirm(r)
  \/ \E r \in Req : Cache(r)
  \/ \E r \in Req : Issue(r)

SpecRedeem == Init /\ [][NextRedeem]_vars

\* The life of a reservation while the store is reachable: one envelope on
\* the local EVM path, sent again and again by two clients at once, whose
\* settlement succeeds or fails.  Every await of a request that holds a
\* reservation returns: the settlement call, the confirmation and the delete.
LifecycleInputs ==
  [Inputs EXCEPT !.routes = {"r1"}, !.headers = {"ok"}, !.paymentIds = {None},
                 !.nets = {"evm"}, !.nonces = {"n1"}, !.froms = {"a"},
                 !.signers = {"a"}, !.fields = {"ok"}, !.balances = {"ok"},
                 !.xPayerHeaders = {None}]

NextLifecycle ==
  \/ Pipeline(LifecycleInputs)
  \/ \E r \in Req : VerifyEvm(r, LifecycleInputs)
  \/ \E r \in Req : CreditCheck(r)
  \/ \E r \in Req : Decrement(r)
  \/ \E r \in Req : Reserve(r)
  \/ \E r \in Req : Confirm(r)
  \/ \E r \in Req : Release(r)
  \/ \E r \in Req : Issue(r)

SpecLifecycle ==
  /\ Init
  /\ [][NextLifecycle]_vars
  /\ \A r \in Req : /\ WF_vars(Settle(r, LifecycleInputs))
                    /\ WF_vars(Confirm(r))
                    /\ WF_vars(Release(r))

\* ------------------------------------------------------------------ pricing
\* SUPPORTED_NETWORKS: the first read of the table filters ALL_NETWORKS.
LoadNetworks ==
  /\ ~pricing.loaded
  /\ pricing' = [pricing EXCEPT !.loaded = TRUE,
                   !.active = getActiveNetworks(pricing.network, pricing.env)]
  /\ UNCHANGED <<storeUp, creditEnabled, svmInit, counter, store, nextTx, req, history>>

\* network.facilitator?.facilitatorContract || routeConfig.payTo
effectivePayTo(network, env) ==
  IF network.facilitator /\ network.facilitatorContract THEN "facilitatorContract"
  ELSE IF env.payTo THEN "payTo"
  ELSE None

\* buildPaymentRequired: one entry per active network; an SVM network is
\* skipped without a Solana recipient (the fee payer exists once the key
\* does), an EVM network is listed with whatever effectivePayTo gives.
BuildChallenge ==
  /\ pricing.loaded
  /\ ~pricing.challenged
  /\ LET network == pricing.network
         amountRequired == amountRequiredInChallenge(pricing.priceAtomic, network.decimals)
         listed == pricing.active /\ (network.vm = "svm" => pricing.env.payToSol)
     IN  pricing' = [pricing EXCEPT !.challenged = TRUE,
                       !.accepts = IF listed THEN amountRequired ELSE NoAmount,
                       !.payTo = IF ~listed THEN None
                                 ELSE IF network.vm = "svm" THEN "payToSol"
                                 ELSE effectivePayTo(network, pricing.env)]
  /\ UNCHANGED <<storeUp, creditEnabled, svmInit, counter, store, nextTx, req, history>>

\* verifyPaymentEvm, the amount check of an envelope on an active network
\* that has no facilitator.
CheckAmountEvm(value) ==
  /\ pricing.loaded /\ pricing.active
  /\ pricing.network.vm = "evm" /\ ~pricing.network.facilitator
  /\ pricing.required = NoAmount
  /\ LET need == requiredAmount(pricing.priceAtomic, pricing.network.decimals)
     IN  pricing' = [pricing EXCEPT !.value = value, !.required = need,
                       !.verdict = IF less(BigInt(value), need)
                                   THEN "Insufficient payment" ELSE "ok"]
  /\ UNCHANGED <<storeUp, creditEnabled, svmInit, counter, store, nextTx, req, history>>

\* verifyPaymentViaFacilitator: the paymentRequirements of the verify call.
RequireFacilitatorVerify ==
  /\ pricing.loaded /\ pricing.active
  /\ pricing.network.vm = "evm" /\ pricing.network.facilitator
  /\ pricing.verifyAmount = NoAmount
  /\ pricing' = [pricing EXCEPT !.verifyAmount =
       amountRequiredFacilitatorVerify(pricing.priceAtomic, pricing.network.decimals)]
  /\ UNCHANGED <<storeUp, creditEnabled, svmInit, counter, store, nextTx, req, history>>

\* settlePaymentViaFacilitator, after a verification.
RequireFacilitatorSettle ==
  /\ pricing.network.vm = "evm" /\ pricing.network.facilitator
  /\ pricing.verifyAmount # NoAmount
  /\ pricing.settleAmount = NoAmount
  /\ pricing' = [pricing EXCEPT !.settleAmount =
       amountRequiredFacilitatorSettle(pricing.priceAtomic, pricing.network.decimals)]
  /\ UNCHANGED <<storeUp, creditEnabled, svmInit, counter, store, nextTx, req, history>>

\* verifyPaymentSvm: no requirements are built without a Solana recipient.
RequireSvmVerify ==
  /\ pricing.loaded /\ pricing.active
  /\ pricing.network.vm = "svm"
  /\ pricing.env.payToSol
  /\ pricing.verifyAmount = NoAmount
  /\ pricing' = [pricing EXCEPT !.verifyAmount =
       amountRequiredSvmVerify(pricing.priceAtomic, pricing.network.decimals)]
  /\ UNCHANGED <<storeUp, creditEnabled, svmInit, counter, store, nextTx, req, history>>

\* settlePaymentSvm, after a verification.
RequireSvmSettle ==
  /\ pricing.network.vm = "svm"
  /\ pricing.verifyAmount # NoAmount
  /\ pricing.settleAmount = NoAmount
  /\ pricing' = [pricing EXCEPT !.settleAmount =
       amountRequiredSvmSettle(pricing.priceAtomic, pricing.network.decimals)]
  /\ UNCHANGED <<storeUp, creditEnabled, svmInit, counter, store, nextTx, req, history>>

\* Every price on every kind of network entry, in every environment.
NetworkEntries ==
  { n \in [vm : {"evm", "svm"}, facilitator : BOOLEAN, facilitatorContract : BOOLEAN,
            decimals : Decimals] :
      /\ n.vm = "svm" => ~n.facilitator
      /\ n.facilitatorContract => n.facilitator }

Environments == [rpc : BOOLEAN, svmKey : BOOLEAN, payTo : BOOLEAN, payToSol : BOOLEAN]

InitPrice ==
  /\ Serving
  /\ svmInit = Uninitialized("missing")
  /\ counter = NoCounter
  /\ \E price \in Prices, network \in NetworkEntries, env \in Environments :
       pricing = Unpriced(price, network, env)

NextPrice ==
  \/ LoadNetworks
  \/ BuildChallenge
  \/ \E value \in Values : CheckAmountEvm(value)
  \/ RequireFacilitatorVerify
  \/ RequireFacilitatorSettle
  \/ RequireSvmVerify
  \/ RequireSvmSettle

SpecPrice == InitPrice /\ [][NextPrice]_vars

\* -------------------------------------------------- SVM initialization
\* verifyPaymentSvm, settlePaymentSvm or buildPaymentRequired calls
\* getSvmFacilitator.
CallSvmFacilitator(c) ==
  /\ svmInit.callers[c].pc = "idle"
  /\ Len(svmInit.promises) < NumCallers
  /\ svmInit' = getSvmFacilitator(svmInit, c)
  /\ UNCHANGED <<storeUp, creditEnabled, pricing, counter, store, nextTx, req, history>>

\* The construction in flight completes.
FinishConstruction(k) ==
  /\ k \in DOMAIN svmInit.promises
  /\ svmInit.promises[k] = "pending"
  /\ svmInit' = constructed(svmInit, k)
  /\ UNCHANGED <<storeUp, creditEnabled, pricing, counter, store, nextTx, req, history>>

\* A caller's await returns or throws.
ResumeCaller(c) ==
  /\ svmInit.callers[c].pc = "awaiting"
  /\ svmInit.promises[svmInit.callers[c].awaits] # "pending"
  /\ svmInit' = awaited(svmInit, c)
  /\ UNCHANGED <<storeUp, creditEnabled, pricing, counter, store, nextTx, req, history>>

\* The caller is done with the facilitator; its slot takes a later caller.
CallerDone(c) ==
  /\ svmInit.callers[c].pc \in {"returned", "failed"}
  /\ svmInit' = [svmInit EXCEPT !.callers[c] = IdleCaller]
  /\ UNCHANGED <<storeUp, creditEnabled, pricing, counter, store, nextTx, req, history>>

InitSvm ==
  /\ Serving
  /\ pricing = Shipped
  /\ \E key \in Keys : svmInit = Uninitialized(key)
  /\ counter = NoCounter

NextSvm ==
  \/ \E c \in Callers : CallSvmFacilitator(c)
  \/ \E k \in 1..NumCallers : FinishConstruction(k)
  \/ \E c \in Callers : ResumeCaller(c)
  \/ \E c \in Callers : CallerDone(c)

SpecSvm == InitSvm /\ [][NextSvm]_vars

\* ------------------------------------------------------ the credit counter
\* The clock moves in steps of a fraction of the credit TTL.
quantum == creditTtl \div Ticks

\* incrementCredit(payerAddress, routeKey, maxCredits, ttlSeconds) on the key;
\* -1 when the call fails.
IncrementCreditCall ==
  /\ LET e == incrementEval(counter.key, maxCreditsPerPayer, creditTtl)
         before == [count |-> counter.key.count, ttl |-> counter.key.ttl]
     IN  counter' = IF storeUp
                    THEN [key |-> e.key, age |-> 0,
                          last |-> [op |-> "increment", ret |-> e.ret] @@ before]
                    ELSE [counter EXCEPT !.last = [op |-> "increment", ret |-> 0 - 1] @@ before]
  /\ UNCHANGED <<storeUp, creditEnabled, pricing, svmInit, store, nextTx, req, history>>

\* decrementCredit(payerAddress, routeKey) on the key; false when the call fails.
DecrementCreditCall ==
  /\ LET e == decrementEval(counter.key)
         before == [count |-> counter.key.count, ttl |-> counter.key.ttl]
     IN  counter' = IF storeUp
                    THEN [counter EXCEPT !.key = e.key,
                                         !.last = [op |-> "decrement", ret |-> e.ret] @@ before]
                    ELSE [counter EXCEPT !.last = [op |-> "decrement", ret |-> 0] @@ before]
  /\ UNCHANGED <<storeUp, creditEnabled, pricing, svmInit, store, nextTx, req, history>>

\* Time passes in the store: the key loses a quantum of its time to live and
\* is removed when none is left.
Tick ==
  /\ counter.key.exists
  /\ LET left == counter.key.ttl - quantum
         before == [count |-> counter.key.count, ttl |-> counter.key.ttl]
     IN  counter' = [key |-> IF left <= 0 THEN NoKey ELSE [counter.key EXCEPT !.ttl = left],
                     age |-> counter.age + quantum,
                     last |-> [op |-> "tick", ret |-> 0] @@ before]
  /\ UNCHANGED <<storeUp, creditEnabled, pricing, svmInit, store, nextTx, req, history>>

InitCounter ==
  /\ Serving
  /\ pricing = Shipped
  /\ svmInit = Uninitialized("missing")
  /\ counter = NoCounter

NextCounter ==
  \/ IncrementCreditCall
  \/ DecrementCreditCall
  \/ Tick
  \/ StoreFails
  \/ StoreRecovers

SpecCounter == InitCounter /\ [][NextCounter]_vars

\* ------------------------------------------------------------------ claims
NonceInUse == "Nonce already used or settlement in progress"

\* next() was called for r: the route handler runs or has run.
Proceeds(r) == req[r].pc \in {"next", "issue"} \/ (req[r].pc = "done" /\ req[r].outcome = "proceed")

\* r's own settlement call succeeded.
Settled(r) == req[r].settlementTx > 0

\* C1, as stated: a request that proceeds to the handler has had exactly one
\* of a successful settlement and a consumed credit.
C1_AsStated ==
  \A r \in Req : Proceeds(r) => (Settled(r) # req[r].creditConsumed)

\* C1, amended: a request that proceeds to the handler has had exactly one
\* of: its own successful settlement, one credit consumed for its payer on
\* its route, or an idempotency hit that replays a stored receipt (which
\* proceeds with neither settlement nor credit).
C1_SettlementCreditOrReplay ==
  \A r \in Req :
    Proceeds(r) =>
      /\ Settled(r) \/ req[r].creditConsumed \/ req[r].idemHit
      /\ ~(Settled(r) /\ req[r].creditConsumed)
      /\ ~(Settled(r) /\ req[r].idemHit)
      /\ ~(req[r].creditConsumed /\ req[r].idemHit)
      /\ req[r].creditConsumed => consumedCt[creditKey(req[r].payerAddress, req[r].route)] >= 1

\* One request proceeded on a credit and another on an idempotency hit.
C1_Witness ==
  \E r1, r2 \in Req :
    /\ req[r1].pc = "done" /\ req[r1].outcome = "proceed" /\ req[r1].creditConsumed
    /\ req[r2].pc = "done" /\ req[r2].outcome = "proceed" /\ req[r2].idemHit

\* r passes verification in this step.
PassesVerification(r) == req[r].pc = "verify" /\ req'[r].verified

\* A confirmed record is never rewritten or deleted.
ConfirmedIsFinal ==
  \A k \in NonceKeys : nonces[k].status = "confirmed" => nonces'[k] = nonces[k]

Quiescent == \A r \in Req : req[r].pc \in {"idle", "done"}

\* C3, as stated: the settlement calls made for a nonce are at most one, and
\* exactly one iff a request carrying it was served with a settlement
\* receipt (read once no request is in flight).
C3_AsStated ==
  Quiescent => \A k \in NonceKeys :
                 /\ submits[k] <= 1
                 /\ (submits[k] = 1) <=> (served[k] >= 1)

\* A request carrying k whose settlement succeeded and that is on its way
\* to the backend.
BeingServed(k) ==
  \E r \in Req : /\ req[r].nonceKey = k /\ req[r].settlementTx > 0
                 /\ req[r].pc \in {"confirm", "cache", "next"}

\* C3, amended: the settlement calls that succeed for a nonce key are at
\* most one, and exactly one iff a request carrying that nonce is served
\* with a settlement receipt; a call that fails releases the nonce, so more
\* calls for the same nonce may follow.
C3_OneSuccessfulSettlement ==
  \A k \in NonceKeys :
    /\ settledOk[k] <= 1
    /\ served[k] <= settledOk[k]
    /\ settledOk[k] = 1 => (served[k] = 1 \/ BeingServed(k))

\* A nonce was submitted twice, the second call succeeded and was served.
C3_Witness ==
  \E k \in NonceKeys : submits[k] = 2 /\ settledOk[k] = 1 /\ served[k] = 1

\* r is past the nonce reservation, one way or the other.
Decided(r) == req[r].verified /\ ~undecided(r)

\* C4, as stated: of two concurrent verified requests with the same nonce,
\* exactly one proceeds to settlement and the other ends with 402 and the
\* reason "Nonce already used or settlement in progress".
C4_AsStated ==
  \A r1, r2 \in Req :
    ( /\ r1 # r2 /\ req[r1].rival /\ req[r2].rival
      /\ req[r1].nonceKey = req[r2].nonceKey
      /\ Decided(r1) /\ Decided(r2) /\ req[r1].acquired )
    => /\ ~req[r2].acquired
       /\ req[r2].pc = "done" /\ req[r2].status = 402 /\ req[r2].reason = NonceInUse

\* r holds the reservation of its nonce and its settlement is not over.
InSettlement(r) == req[r].acquired /\ req[r].pc \in {"settle", "confirm", "release"}

\* C4, amended: of two concurrent verified requests with the same nonce key
\* on a nonce-tracked path, at most one at a time holds the reservation and
\* is in settlement, and each one that neither acquires the reservation nor
\* consumes a credit ends with 402 and the reason "Nonce already used or
\* settlement in progress".  (Both end so when the reservation write fails;
\* both settle, one after the other, when the first settlement fails.)
C4_OneReservationAtATime ==
  /\ \A r1, r2 \in Req :
       (r1 # r2 /\ req[r1].nonceKey = req[r2].nonceKey /\ InSettlement(r1)) => ~InSettlement(r2)
  /\ \A r \in Req :
       (Decided(r) /\ req[r].nonceKey # None /\ ~req[r].acquired /\ ~req[r].creditConsumed)
       => (req[r].pc = "done" /\ req[r].status = 402 /\ req[r].reason = NonceInUse)

\* Two requests raced on one nonce: one is in settlement, the other was
\* turned away at the reservation.
C4_Witness ==
  \E r1, r2 \in Req :
    /\ r1 # r2 /\ req[r1].rival /\ req[r2].rival /\ req[r1].nonceKey = req[r2].nonceKey
    /\ InSettlement(r1)
    /\ req[r2].pc = "done" /\ req[r2].reason = NonceInUse

\* r arrives in this step carrying paymentId p.
ArrivesWith(r, p) == req[r].pc = "idle" /\ req'[r].pc # "idle" /\ req'[r].paymentId = p

\* C5, as stated: once a request with a paymentId has been served with a
\* receipt and has completed, a request arriving with the same paymentId is
\* served with the identical PAYMENT-RESPONSE header and without settlement.
C5_AsStated ==
  [][ \A r \in Req, p \in PaymentIds :
        (ArrivesWith(r, p) /\ lastServed[p].any)
        => /\ req'[r].idemHit /\ req'[r].pc = "next"
           /\ req'[r].paymentResponse = lastServed[p].hdr ]_vars

\* C5, amended: a request arriving with a paymentId while the idempotency
\* lookup succeeds and a record is stored under that paymentId is served
\* with the PAYMENT-RESPONSE header of that record and makes no settlement
\* call, reservation or credit decrement; the record is the receipt of the
\* latest settled request with that paymentId whose cache write succeeded.
C5_StoredReceiptIsReplayed ==
  [][ /\ \A r \in Req, p \in PaymentIds :
           (ArrivesWith(r, p) /\ storeUp /\ idem[p] # NoHeader)
           => /\ req'[r].idemHit /\ req'[r].pc = "next"
              /\ req'[r].paymentResponse = idem[p]
      /\ \A r \in Req :
           req'[r].idemHit => /\ req'[r].pc \in {"next", "done"}
                              /\ req'[r].settlementTx = 0
                              /\ ~req'[r].acquired /\ ~req'[r].creditConsumed
      /\ \A p \in PaymentIds :
           idem'[p] # idem[p]
           => \E r \in Req : /\ req[r].pc = "cache" /\ req[r].paymentId = p /\ Settled(r)
                             /\ idem'[p] = paymentResponseHeader(req[r].settlementTx, req[r].net) ]_vars

\* A request was served from the idempotency record of its paymentId.
C5_Witness ==
  \E r \in Req :
    /\ req[r].pc = "done" /\ req[r].outcome = "proceed" /\ req[r].idemHit
    /\ req[r].paymentResponse.txHash > 0
    /\ req[r].paymentResponse = idem[req[r].paymentId]

\* C6: every (payer, route) credit counter is at least 0 and at most
\* maxCreditsPerPayer, in every reachable state.
C6_CounterWithinCap ==
  \A ck \in CreditKeys : credits[ck] >= 0 /\ credits[ck] <= maxCreditsPerPayer

\* Two increments resolved to the cap with no credit ever consumed: one of
\* them found the counter at the cap.
C6_Witness ==
  \E r1, r2 \in Req :
    /\ r1 # r2
    /\ req[r1].newCount = maxCreditsPerPayer /\ req[r2].newCount = maxCreditsPerPayer
    /\ consumedCt[creditKey(req[r1].payerAddress, req[r1].route)] = 0
    /\ credits[creditKey(req[r1].payerAddress, req[r1].route)] = maxCreditsPerPayer

Min(a, b) == IF a <= b THEN a ELSE b

\* C7: each counter equals min(cap, issued - consumed), where issued counts
\* the increments that raised the counter and consumed the decrements that
\* returned true.
C7_CounterIsIssuedMinusConsumed ==
  \A ck \in CreditKeys :
    credits[ck] = Min(maxCreditsPerPayer, issuedCt[ck] - consumedCt[ck])

\* Credits were issued and consumed in turn: three raises, two consumptions.
C7_Witness ==
  \E ck \in CreditKeys : issuedCt[ck] = 3 /\ consumedCt[ck] = 2 /\ credits[ck] = 1

\* C8: an idempotency record is written only by a request whose own
\* settlement has succeeded; a request that fails verification, fails the
\* reservation, fails settlement or is served by credit writes none; and a
\* request's idempotency lookup precedes its verification.
C8_CacheOnlyAfterSettlement ==
  [][ /\ \A p \in PaymentIds :
           idem'[p] # idem[p]
           => \E r \in Req : /\ req[r].pc = "cache" /\ req[r].paymentId = p
                             /\ req[r].verified /\ req[r].acquired /\ Settled(r)
                             /\ ~req[r].creditConsumed /\ ~req[r].idemHit
      /\ \A r \in Req :
           /\ req'[r].wroteCache => /\ req'[r].settlementTx > 0 /\ ~req'[r].creditConsumed
                                    /\ req'[r].outcome # "rejected"
           /\ (req'[r].pc = "verify" /\ req'[r].paymentId # None) => req'[r].lookedUp
           /\ (req'[r].verified /\ ~req[r].verified) => req[r].pc = "verify" ]_vars

\* One request wrote the idempotency record of its paymentId after settling;
\* another with the same paymentId was turned away at the reservation, and
\* wrote none.
C8_Witness ==
  \E r1, r2 \in Req :
    /\ req[r1].wroteCache /\ idem[req[r1].paymentId] = req[r1].paymentResponse
    /\ req[r2].paymentId = req[r1].paymentId
    /\ req[r2].pc = "done" /\ req[r2].reason = NonceInUse /\ ~req[r2].wroteCache

\* r is at, or past, a credit read, decrement or increment.
UsesCreditKey(r) ==
  \/ req[r].pc \in {"credit", "decrement", "issue"}
  \/ req[r].creditConsumed
  \/ req[r].newCount >= 0

\* C9, as stated: the payer in the key of every credit read, decrement and
\* increment is the payer who signed the request's payment, whatever other
\* headers the request carries.
C9_AsStated ==
  \A r \in Req :
    UsesCreditKey(r) => creditKey(req[r].payerAddress, req[r].route) = <<req[r].signer, req[r].route>>

\* C10: a credit is issued for a request only if its own settlement
\* succeeded (it neither consumed a credit nor was an idempotency hit), its
\* response has finished, and the status is in creditOnStatusCodes; the
\* increment runs after the response has finished.
C10_IssuedOnlyAfterSettledResponse ==
  [][ /\ \A r \in Req :
           (req'[r].pc = "issue" \/ req'[r].newCount >= 0)
           => /\ req'[r].didSettle /\ req'[r].settlementTx > 0
              /\ ~req'[r].creditConsumed /\ ~req'[r].idemHit
              /\ req'[r].finished /\ req'[r].outcome = "proceed"
              /\ req'[r].status \in creditOnStatusCodes
      /\ \A ck \in CreditKeys :
           credits'[ck] > credits[ck]
           => \E r \in Req : /\ req[r].pc = "issue" /\ req[r].finished
                             /\ ck = creditKey(req[r].payerAddress, req[r].route) ]_vars

\* A settled request got a credit for a 503, and a request that redeemed a
\* credit and also got a 503 was issued none.
C10_Witness ==
  \E r1, r2 \in Req :
    /\ req[r1].pc = "done" /\ req[r1].didSettle /\ req[r1].status = 503 /\ req[r1].newCount >= 1
    /\ req[r2].pc = "done" /\ req[r2].creditConsumed /\ req[r2].status = 503
    /\ req[r2].newCount < 0

\* C11: within one request, a credit is read and consumed only after
\* verification has passed and before any nonce reservation; a request that
\* consumed a credit makes no nonce reservation and no settlement call.
C11_CreditBetweenVerifyAndReserve ==
  [][ \A r \in Req :
        /\ req'[r].pc \in {"credit", "decrement"}
             => req'[r].verified /\ ~req'[r].acquired /\ req'[r].settlementTx = 0
        /\ req'[r].creditConsumed
             => /\ ~req'[r].acquired /\ req'[r].settlementTx = 0
                /\ req'[r].pc \in {"next", "done"} ]_vars

\* A request on a nonce-tracked path was served on a credit: its nonce was
\* never reserved nor submitted.
C11_Witness ==
  \E r \in Req :
    /\ req[r].pc = "done" /\ req[r].outcome = "proceed" /\ req[r].creditConsumed
    /\ req[r].nonceKey # None
    /\ nonces[req[r].nonceKey].status = "absent" /\ submits[req[r].nonceKey] = 0

\* C12: a credit is consumed by at most one request.  Of two requests of
\* one payer on one route that both read a count of 1, both consume only if
\* two credits were issued; the one that does not consume goes on to the
\* nonce reservation and settlement; no counter goes below 0.
C12_OneCreditOneConsumer ==
  /\ \A ck \in CreditKeys : credits[ck] >= 0 /\ consumedCt[ck] <= issuedCt[ck]
  /\ \A r1, r2 \in Req :
       ( /\ r1 # r2 /\ req[r1].creditCount = 1 /\ req[r2].creditCount = 1
         /\ creditKey(req[r1].payerAddress, req[r1].route) = creditKey(req[r2].payerAddress, req[r2].route)
         /\ req[r1].creditConsumed /\ req[r2].creditConsumed )
       => issuedCt[creditKey(req[r1].payerAddress, req[r1].route)] >= 2
  /\ \A r \in Req :
       (req[r].creditCount >= 1 /\ ~req[r].creditConsumed /\ req[r].pc # "decrement")
       => \/ req[r].pc \in {"reserve", "settle", "confirm", "release", "cache", "next", "issue"}
          \/ req[r].pc = "done" /\ (req[r].acquired \/ req[r].reason = NonceInUse)

\* Two requests read the one credit at once: one consumed it, the other is
\* in settlement, and the counter is 0.
C12_Witness ==
  \E r1, r2 \in Req :
    /\ r1 # r2 /\ req[r1].creditCount = 1 /\ req[r2].creditCount = 1
    /\ req[r1].creditConsumed /\ ~req[r2].creditConsumed /\ req[r2].pc = "settle"
    /\ issuedCt[creditKey(req[r1].payerAddress, req[r1].route)] = 1
    /\ credits[creditKey(req[r1].payerAddress, req[r1].route)] = 0

SettlementFailed == "Payment settlement failed"

\* r's settlement has failed and r ends in this step.
EndsAfterFailedSettlement(r) == req[r].pc = "release" /\ req'[r].pc = "done"

\* What a request whose settlement failed answers and leaves behind, apart
\* from its nonce record: 402 with the settlement error, no receipt header,
\* no idempotency record.
FailedSettlementAnswer(r) ==
  /\ req'[r].status = 402 /\ req'[r].reason = SettlementFailed /\ req'[r].outcome = "rejected"
  /\ req'[r].paymentResponse = NoHeader /\ ~req'[r].wroteCache /\ ~req'[r].didSettle
  /\ idem' = idem

\* C13, as stated: a request that reserved a nonce and whose settlement
\* fails ends with 402 carrying the settlement error, its nonce record is
\* deleted, and it produces no receipt header and no idempotency record.
C13_AsStated ==
  [][ \A r \in Req :
        EndsAfterFailedSettlement(r)
        => FailedSettlementAnswer(r) /\ nonces'[req[r].nonceKey] = NoNonce ]_vars

\* C13, amended: such a request ends with 402 carrying the settlement error
\* and without receipt header or idempotency record, and it calls the
\* delete of its nonce record: the record is gone when that call succeeds,
\* and it stays pending when the call fails (the failure is only logged).
C13_ReleasedWhenDeleteSucceeds ==
  [][ \A r \in Req :
        EndsAfterFailedSettlement(r)
        => /\ FailedSettlementAnswer(r)
           /\ storeUp => nonces'[req[r].nonceKey] = NoNonce
           /\ ~storeUp => nonces' = nonces ]_vars

\* A settlement failed and released its nonce, and a later request has
\* reserved the same nonce again.
C13_Witness ==
  \E r1, r2 \in Req :
    /\ r1 # r2 /\ req[r1].nonceKey = req[r2].nonceKey
    /\ req[r1].pc = "done" /\ req[r1].acquired /\ req[r1].reason = SettlementFailed
    /\ ~req[r2].rival /\ req[r2].acquired /\ req[r2].pc = "settle"

\* r leaves the step it is at, pc, in this step.
Leaves(r, pc) == req[r].pc = pc /\ req'[r].pc # pc

\* C14: when the conditional set of the nonce reservation fails with a
\* transport error, the reservation counts as not acquired: the request ends
\* with 402 and neither it nor the store moves towards settlement.
C14_ReservationFailsClosed ==
  [][ \A r \in Req :
        (Leaves(r, "reserve") /\ ~storeUp)
        => /\ req'[r].pc = "done" /\ req'[r].status = 402 /\ req'[r].reason = NonceInUse
           /\ ~req'[r].acquired /\ req'[r].settlementTx = 0
           /\ nonces' = nonces /\ submits' = submits /\ nextTx' = nextTx ]_vars

\* A request was refused at the reservation although its nonce was free and
\* never submitted: the conditional set failed.
C14_Witness ==
  \E r \in Req :
    /\ req[r].pc = "done" /\ req[r].reason = NonceInUse /\ ~req[r].rival
    /\ nonces[req[r].nonceKey].status = "absent" /\ submits[req[r].nonceKey] = 0

\* C15: a store read that fails with a transport error reads as absent or
\* zero and the pipeline goes on to its next step: a failed idempotency
\* lookup to verification, a failed nonce lookup to the signature check, a
\* failed credit-count read to the nonce reservation.
C15_ReadsFailOpen ==
  [][ \A r \in Req :
        /\ (Leaves(r, "idle") /\ ~storeUp /\ req'[r].paymentId # None)
             => ~req'[r].idemHit /\ req'[r].pc = "verify"
        /\ (Leaves(r, "verify") /\ ~storeUp /\ req[r].net = "evm")
             => req'[r].verified \/ req'[r].reason = "Insufficient payment"
        /\ (Leaves(r, "credit") /\ ~storeUp)
             => req'[r].creditCount = 0 /\ req'[r].pc = reservePc(req[r].nonceKey) ]_vars

\* Each of the three reads failed open: a request with a stored receipt went
\* on to verification, passed it although its nonce is confirmed, and went
\* past the credit read with a count of 0 although a credit is stored.
C15_Witness ==
  \E r \in Req :
    /\ req[r].pc = "reserve" /\ req[r].verified /\ req[r].creditCount = 0
    /\ req[r].paymentId # None /\ idem[req[r].paymentId] # NoHeader
    /\ nonces[req[r].nonceKey].status = "confirmed"
    /\ credits[creditKey(req[r].payerAddress, req[r].route)] > 0

\* r carried a payment envelope and was turned away before its verification
\* passed: its network is not supported, or its verifier said invalid.
VerificationFailed(r) ==
  /\ req[r].pc = "done" /\ req[r].header = "ok"
  /\ req[r].outcome = "rejected" /\ ~req[r].verified

\* r made no reservation, no settlement call and no credit operation.
NoPaymentEffect(r) ==
  /\ ~req[r].acquired /\ req[r].settlementTx = 0 /\ ~req[r].didSettle
  /\ ~req[r].creditConsumed /\ req[r].creditCount = 0 /\ req[r].newCount < 0

\* C16, as stated: every verification failure, an unsupported network
\* included, ends the request with 402, the payment-required challenge
\* re-emitted together with the reason, and no reservation, settlement or
\* credit operation.
C16_AsStated ==
  \A r \in Req :
    VerificationFailed(r)
    => /\ req[r].status = 402 /\ req[r].reason # None /\ req[r].paymentRequired
       /\ NoPaymentEffect(r)

\* C17, as stated: every request whose payment header does not decode to a
\* payment envelope ends with 400, without store access, verification,
\* settlement or credit operation.
C17_AsStated ==
  \A r \in Req :
    (req[r].pc = "done" /\ req[r].header \in {"garbled", "null", "empty"})
    => /\ req[r].status = 400
       /\ ~req[r].lookedUp /\ ~req[r].verified /\ NoPaymentEffect(r)

\* C18: a request with neither payment header ends with 402 and the
\* PAYMENT-REQUIRED challenge, never reaches the handler, and leaves the
\* nonce, idempotency and credit stores as they were.
C18_NoHeaderIsChallenged ==
  [][ \A r \in Req :
        /\ (Leaves(r, "idle") /\ req'[r].header = "absent")
             => /\ req'[r].pc = "done" /\ req'[r].outcome = "rejected"
                /\ req'[r].status = 402 /\ req'[r].paymentRequired
                /\ ~req'[r].lookedUp /\ store' = store
        /\ req'[r].header = "absent" => req'[r].pc = "done" /\ req'[r].outcome = "rejected" ]_vars

\* A request without payment header was challenged while the stores held a
\* confirmed nonce and a credit.
C18_Witness ==
  \E r \in Req :
    /\ req[r].header = "absent" /\ req[r].pc = "done"
    /\ req[r].status = 402 /\ req[r].paymentRequired
    /\ \E k \in NonceKeys : nonces[k].status = "confirmed"
    /\ \E ck \in CreditKeys : credits[ck] > 0

\* What the specification asks for: P * 10^k, written as the digits of P
\* followed by k zeros.
Scaled(P, k) == IF P = <<0>> THEN P ELSE P \o [i \in 1..k |-> 0]

\* C19: for every price P and every active network with d >= 6 decimals, the
\* amount in the challenge entry, the amount the local verifier enforces and
\* the amounts in the requirements sent for verify and settle all equal
\* P * 10^(d-6); the local verifier accepts a value exactly when it is not
\* below that amount.
C19_AdvertisedEqualsEnforced ==
  pricing.active /\ pricing.network.decimals >= 6 =>
    LET want == Scaled(BigInt(pricing.priceAtomic), pricing.network.decimals - 6)
    IN  /\ pricing.accepts # NoAmount => pricing.accepts = toString(want)
        /\ pricing.required # NoAmount =>
             /\ pricing.required = want
             /\ pricing.verdict = "ok" <=> ~less(BigInt(pricing.value), want)
        /\ pricing.verifyAmount # NoAmount => pricing.verifyAmount = toString(want)
        /\ pricing.settleAmount # NoAmount => pricing.settleAmount = toString(want)

\* A price of 10000 on an active 18-decimal facilitator network: the challenge
\* and both requirements carry 10^16.
C19_Witness ==
  /\ pricing.active
  /\ pricing.network.decimals = 18
  /\ BigInt(pricing.priceAtomic) = <<1, 0, 0, 0, 0>>
  /\ pricing.accepts = toString(<<1, 0, 0, 0, 0, 0, 0, 0, 0, 0, 0, 0, 0, 0, 0, 0, 0>>)
  /\ pricing.verifyAmount = pricing.accepts
  /\ pricing.settleAmount = pricing.accepts

\* C20: a network whose token has fewer than 6 decimals never becomes
\* active, is never advertised in a challenge, and no payment on it is
\* verified or settled.
C20_AsStated ==
  pricing.network.decimals < 6 =>
    /\ ~pricing.active
    /\ pricing.accepts = NoAmount
    /\ pricing.required = NoAmount
    /\ pricing.verifyAmount = NoAmount
    /\ pricing.settleAmount = NoAmount

\* C21: every request that proceeds carries exactly one kind of receipt: the
\* PAYMENT-RESPONSE header when it settled or was served an idempotent
\* replay, or X-x402-Credit when it consumed a credit; never both and never
\* neither.
C21_ExactlyOneReceipt ==
  \A r \in Req :
    req[r].outcome = "proceed" =>
      /\ (req[r].paymentResponse # NoHeader) # req[r].creditHeader
      /\ req[r].paymentResponse # NoHeader <=> (req[r].didSettle \/ req[r].idemHit)
      /\ req[r].creditHeader <=> req[r].creditConsumed
      /\ req[r].didSettle =>
           req[r].paymentResponse = paymentResponseHeader(req[r].settlementTx, req[r].net)

\* One request proceeded on a credit while another was served a replay.
C21_Witness ==
  \E r, q \in Req :
    /\ req[r].outcome = "proceed" /\ req[r].creditHeader
    /\ req[q].outcome = "proceed" /\ req[q].idemHit /\ req[q].paymentResponse # NoHeader

\* The counter a request's credit operations address.
OwnKey(r) == <<toLowerCase(req[r].payerAddress), req[r].route>>

\* C22: a step that changes a credit counter is the decrement or increment of
\* one request, and the counter is the one of that request's payer and route;
\* every other counter is unchanged.  Each counter equals what was issued
\* under its own key minus what was consumed under it, so a credit consumed
\* on one route was issued on that route to that payer.
C22_CreditsIsolated ==
  [][ /\ credits' # credits =>
           \E r \in Req :
             /\ req[r].pc \in {"decrement", "issue"} /\ req'[r].pc # req[r].pc
             /\ OwnKey(r) \in CreditKeys
             /\ \A ck \in CreditKeys \ {OwnKey(r)} : credits'[ck] = credits[ck]
      /\ \A ck \in CreditKeys : credits'[ck] = issuedCt'[ck] - consumedCt'[ck]
      /\ \A r \in Req :
           req'[r].creditConsumed /\ ~req[r].creditConsumed =>
             /\ consumedCt'[OwnKey(r)] = consumedCt[OwnKey(r)] + 1
             /\ issuedCt[OwnKey(r)] > consumedCt[OwnKey(r)] ]_vars

\* Payer a holds a credit on r1 and none on r2, payer b holds none, and a
\* request of a on r2 and a request of b on r1 have both settled.
C22_Witness ==
  /\ credits[<<"a", "r1">>] > 0
  /\ credits[<<"a", "r2">>] = 0 /\ credits[<<"b", "r1">>] = 0
  /\ \E r, q \in Req :
       /\ req[r].didSettle /\ OwnKey(r) = <<"a", "r2">>
       /\ req[q].didSettle /\ OwnKey(q) = <<"b", "r1">>

\* C23: while the store is down the credit code neither consumes nor issues
\* a credit and surfaces no error: a verified request leaves the credit check
\* (or a decrement begun before the outage) for the reservation or the
\* settlement, exactly where a request goes when credits are disabled, and a
\* failed increment leaves the answered request as it was.
C23_CreditsDisableWhenStoreDown ==
  [][ \A r \in Req :
        ~storeUp /\ req[r].pc \in {"credit", "decrement", "issue"} /\ req'[r].pc # req[r].pc =>
          /\ credits' = credits
          /\ consumedCt' = consumedCt /\ issuedCt' = issuedCt
          /\ ~req'[r].creditConsumed /\ ~req'[r].creditHeader /\ ~req'[r].issued
          /\ req'[r].outcome = req[r].outcome /\ req'[r].status = req[r].status
          /\ req'[r].reason = req[r].reason
          /\ req[r].pc \in {"credit", "decrement"} => req'[r].pc = reservePc(req[r].nonceKey)
          /\ req[r].pc = "issue" => req'[r].pc = "done" ]_vars

\* A request that saw a credit, whose decrement then failed on the outage: it
\* stands before the reservation with the credit still in the counter.
C23_Witness ==
  \E r \in Req :
    /\ ~storeUp
    /\ req[r].pc \in {"reserve", "settle"}
    /\ req[r].creditCount > 0 /\ ~req[r].creditConsumed
    /\ credits[OwnKey(r)] = req[r].creditCount
    /\ consumedCt[OwnKey(r)] = 0
    /\ \A q \in Req \ {r} : req[q] = IdleReq

\* The other requests that hold the reservation of r's nonce key.
Holders(r) ==
  {q \in Req \ {r} : req[q].nonceKey = req[r].nonceKey /\ InSettlement(q)}

\* C24: a setNoncePending call returns true exactly when it finds no record
\* under the key, and then writes the caller's pending record; of the calls
\* made on a key from the moment it has no record, at most one returns true:
\* every call that finds the winner's record returns false and leaves it
\* unchanged.
C24_OneCallAcquires ==
  [][ \A r \in Req :
        Leaves(r, "reserve") =>
          LET k == req[r].nonceKey
          IN  /\ req'[r].acquired <=> (storeUp /\ nonces[k].status = "absent")
              /\ req'[r].acquired =>
                   /\ nonces' = [nonces EXCEPT ![k] = pendingRecord(req[r].payerAddress, req[r].route)]
                   /\ Holders(r) = {}
              /\ ~req'[r].acquired =>
                   /\ nonces' = nonces
                   /\ req'[r].pc = "done" /\ req'[r].status = 402
              /\ Holders(r) # {} => ~req'[r].acquired /\ nonces'[k].status = "pending" ]_vars

\* Two calls raced on a free key with the store up: the winner's pending
\* record stands while it settles, and the other call returned false.
C24_Witness ==
  \E r1, r2 \in Req :
    /\ r1 # r2 /\ req[r1].rival /\ req[r2].rival /\ req[r1].nonceKey = req[r2].nonceKey
    /\ storeUp
    /\ req[r1].acquired /\ req[r1].pc = "settle"
    /\ nonces[req[r1].nonceKey] = pendingRecord(req[r1].payerAddress, req[r1].route)
    /\ submits[req[r1].nonceKey] = 0
    /\ req[r2].pc = "done" /\ req[r2].reason = NonceInUse /\ ~req[r2].acquired

\* C25: when the confirmation write fails after a successful settlement the
\* request goes on: the receipt header is set, the idempotency write is made
\* when the request has a paymentId, the request proceeds to the backend, and
\* the nonce record is not deleted.
C25_ConfirmFailureNotFatal ==
  [][ \A r \in Req :
        /\ (Leaves(r, "confirm") /\ ~storeUp) =>
             /\ nonces' = nonces /\ nonces'[req[r].nonceKey].status = "pending"
             /\ req'[r].paymentResponse = paymentResponseHeader(req[r].settlementTx, req[r].net)
             /\ req'[r].pc = IF req[r].paymentId # None THEN "cache" ELSE "next"
             /\ req'[r].outcome = req[r].outcome
        /\ (req[r].settlementTx > 0 /\ req'[r].pc # "idle") =>
             /\ req'[r].pc \in {"confirm", "cache", "next", "issue", "done"}
             /\ req'[r].outcome # "rejected"
        /\ Leaves(r, "cache") =>
             /\ idem' = setIdempotencyCache(req[r].paymentId, req[r].paymentResponse)
             /\ req'[r].pc = "next"
             /\ nonces' = nonces ]_vars

\* A request whose confirmation write failed was served with its receipt and
\* its idempotency record written, its nonce record still pending.
C25_Witness ==
  \E r \in Req :
    /\ req[r].outcome = "proceed" /\ req[r].didSettle /\ req[r].settlementTx > 0
    /\ req[r].nonceKey # None /\ nonces[req[r].nonceKey].status = "pending"
    /\ req[r].paymentResponse # NoHeader
    /\ req[r].wroteCache /\ idem[req[r].paymentId] = req[r].paymentResponse

\* r's own settlement receipt is set on the response in this step.
ReceiptSet(r) ==
  /\ req[r].paymentResponse = NoHeader /\ req'[r].paymentResponse # NoHeader
  /\ ~req'[r].idemHit

\* C26, as stated: every request served with a settlement receipt was
\* verified, then reserved its nonce, then settled, then had its nonce record
\* rewritten as confirmed, then got its receipt header and idempotency
\* record, then went to the backend; no settlement call before the
\* reservation is acquired.
C26_AsStated ==
  [][ \A r \in Req :
        /\ Leaves(r, "settle") => req[r].verified /\ req[r].acquired
        /\ Leaves(r, "confirm") =>
             /\ req[r].settlementTx > 0
             /\ nonces'[req[r].nonceKey].status = "confirmed"
        /\ ReceiptSet(r) => req[r].pc = "confirm"
        /\ Leaves(r, "cache") => req[r].paymentResponse # NoHeader
        /\ (Leaves(r, "next") /\ req[r].didSettle) => req[r].paymentResponse # NoHeader ]_vars

\* C26, amended: a request served with a settlement receipt on a
\* nonce-tracked path was verified, then acquired the reservation, then
\* settled, then made the confirmation write (which rewrites the record
\* unless the store call fails), then got its receipt header, then made the
\* idempotency write if it has a paymentId, then went to the backend.  On the
\* facilitator path, which has no nonce key, the reservation and the
\* confirmation are absent and the rest of the order is the same.  The
\* settlement call of a request with a nonce key is never made before its
\* reservation is acquired.
C26_SettlementOrder ==
  [][ \A r \in Req :
        /\ Leaves(r, "reserve") => req[r].verified /\ req[r].nonceKey # None
        /\ Leaves(r, "settle") =>
             /\ req[r].verified /\ ~req[r].creditConsumed
             /\ req[r].nonceKey # None <=> req[r].acquired
        /\ Leaves(r, "confirm") =>
             /\ req[r].settlementTx > 0 /\ req[r].acquired
             /\ nonces' = setNonceConfirmed(req[r].nonceKey, settlementPayer(req[r]),
                                            req[r].route, req[r].settlementTx)
        /\ ReceiptSet(r) =>
             /\ req'[r].settlementTx > 0
             /\ req[r].pc = IF req[r].nonceKey # None THEN "confirm" ELSE "settle"
        /\ Leaves(r, "cache") =>
             /\ req[r].paymentResponse # NoHeader /\ req[r].paymentId # None
             /\ idem' = setIdempotencyCache(req[r].paymentId, req[r].paymentResponse)
        /\ (Leaves(r, "next") /\ req[r].didSettle) =>
             /\ req[r].verified /\ req[r].settlementTx > 0
             /\ req[r].paymentResponse # NoHeader ]_vars

\* A request on the local EVM path was served after every step succeeded
\* while a request on the facilitator path was served without a reservation.
C26_Witness ==
  \E r, q \in Req :
    /\ req[r].outcome = "proceed" /\ req[r].didSettle /\ req[r].acquired
    /\ nonces[req[r].nonceKey].status = "confirmed"
    /\ nonces[req[r].nonceKey].txHash = req[r].settlementTx
    /\ req[r].wroteCache
    /\ req[q].outcome = "proceed" /\ req[q].didSettle /\ req[q].nonceKey = None

\* C27: a verifier call, on any of the three paths and whether it passes or
\* fails, leaves the nonce, idempotency and credit stores as they were.
C27_VerificationPersistsNothing ==
  [][ \A r \in Req :
        Leaves(r, "verify") =>
          /\ nonces' = nonces /\ idem' = idem /\ credits' = credits
          /\ req'[r].verified \/ req'[r].outcome = "rejected" ]_vars

\* With a confirmed nonce in the store, one request failed the local
\* verifier on it and another passed the SVM verifier.
C27_Witness ==
  \E r, q \in Req :
    /\ req[r].net = "evm" /\ req[r].outcome = "rejected"
    /\ req[r].reason = "Nonce already used (confirmed)"
    /\ nonces[req[r].nonceKey].status = "confirmed"
    /\ req[q].net = "svm" /\ req[q].verified /\ req[q].pc \in {"credit", "reserve"}
    /\ nonces[req[q].nonceKey].status = "absent"

\* a is below b, for digit sequences without leading zeros: once both are
\* written with the same number of digits, a has the smaller digit at the
\* first place where they differ.
Below(a, b) ==
  LET L == IF Len(a) > Len(b) THEN Len(a) ELSE Len(b)
      pa == [i \in 1..L |-> IF i <= L - Len(a) THEN 0 ELSE a[i - (L - Len(a))]]
      pb == [i \in 1..L |-> IF i <= L - Len(b) THEN 0 ELSE b[i - (L - Len(b))]]
      differ == {i \in 1..L : pa[i] # pb[i]}
  IN  differ # {} /\ LET i == CHOOSE i \in differ : \A j \in differ : i <= j
                     IN  pa[i] < pb[i]

TenTo16 == <<1, 0, 0, 0, 0, 0, 0, 0, 0, 0, 0, 0, 0, 0, 0, 0, 0>>
TenTo16Less1 == <<9, 9, 9, 9, 9, 9, 9, 9, 9, 9, 9, 9, 9, 9, 9, 9>>

\* C28: the amount check of the local EVM verifier rejects exactly the
\* values strictly below the scaled required amount: required - 1 is
\* rejected, required and anything above pass.
C28_RejectsExactlyBelowRequired ==
  pricing.required # NoAmount =>
    LET value == BigInt(pricing.value)
    IN  /\ pricing.verdict = "Insufficient payment" <=> Below(value, pricing.required)
        /\ pricing.verdict = "ok" <=> ~Below(value, pricing.required)
        /\ value = pricing.required => pricing.verdict = "ok"
        /\ (pricing.required = TenTo16 /\ value = TenTo16Less1)
             => pricing.verdict = "Insufficient payment"
        /\ (pricing.required = <<1, 0, 0, 0, 0>> /\ value = <<9, 9, 9, 9>>)
             => pricing.verdict = "Insufficient payment"

\* An 18-decimal token at price 10000: the value 10^16 - 1 was rejected.
C28_Witness ==
  /\ pricing.required = TenTo16
  /\ BigInt(pricing.value) = TenTo16Less1
  /\ pricing.verdict = "Insufficient payment"

\* The recipient the specification gives a network entry, if any.
HasRecipient(network, env) ==
  IF network.vm = "svm" THEN env.payToSol
  ELSE (network.facilitator /\ network.facilitatorContract) \/ env.payTo

\* C29: the challenge has an accept entry for the network exactly when the
\* network is active and has a recipient, and no entry lacks a recipient.
C29_AsStated ==
  pricing.challenged =>
    /\ pricing.accepts # NoAmount <=>
         (pricing.active /\ HasRecipient(pricing.network, pricing.env))
    /\ pricing.accepts # NoAmount => pricing.payTo # None

\* C30: however many callers call getSvmFacilitator before it has resolved,
\* the construction runs at most once; every caller that gets a facilitator,
\* whether it waited for the construction or came later, gets the one
\* instance and fee-payer address the module holds.
C30_SingleFlight ==
  /\ Len(svmInit.promises) <= 1
  /\ \A c \in Callers :
       svmInit.callers[c].pc = "returned" =>
         /\ svmInit.callers[c].facilitator # 0
         /\ svmInit.callers[c].facilitator = svmInit._svmFacilitator
         /\ svmInit.callers[c].feePayerAddress = svmInit._svmFacilitatorAddress
  /\ \A c \in Callers :
       svmInit.callers[c].pc = "awaiting" => svmInit.callers[c].awaits = 1

\* Two concurrent first callers got the instance from the promise they both
\* awaited, and a later caller got the same instance from the module.
C30_Witness ==
  \E c1, c2, c3 \in Callers :
    /\ c1 # c2
    /\ svmInit.callers[c1].pc = "returned" /\ svmInit.callers[c1].via = "promise"
    /\ svmInit.callers[c2].pc = "returned" /\ svmInit.callers[c2].via = "promise"
    /\ svmInit.callers[c3].pc = "returned" /\ svmInit.callers[c3].via = "resolved"
    /\ svmInit.callers[c1].facilitator = svmInit.callers[c3].facilitator

\* C31: after an initialization that failed, the in-flight promise is
\* cleared, so the next call of getSvmFacilitator starts a fresh construction
\* instead of handing out the earlier failure.
C31_AsStated ==
  [][\A c \in Callers :
       ( /\ svmInit.callers[c].pc = "idle"
         /\ svmInit'.callers[c].pc # "idle"
         /\ svmInit.promises # <<>>
         /\ svmInit.promises[Len(svmInit.promises)] = "rejected" )
       => /\ Len(svmInit'.promises) = Len(svmInit.promises) + 1
          /\ svmInit'.callers[c].awaits = Len(svmInit'.promises)]_vars

\* r and q carry the same paymentId, neither was served from the idempotency
\* cache, and neither has completed a settlement.
ConcurrentRetries(r, q) ==
  /\ r # q
  /\ req[r].paymentId # None /\ req[r].paymentId = req[q].paymentId
  /\ ~req[r].idemHit /\ ~req[q].idemHit
  /\ req[r].pc \in {"verify", "credit", "reserve", "settle"}
  /\ req[q].pc \in {"verify", "credit", "reserve", "settle"}

C33_IncrementAlwaysRefreshes ==
  [][ (IncrementCreditCall /\ storeUp /\ counter.key.exists) =>
        /\ counter'.key.exists
        /\ counter'.key.ttl = creditTtl
        /\ counter.key.count >= maxCreditsPerPayer =>
             /\ counter'.key.count = counter.key.count
             /\ counter'.last.ret = counter.key.count
        /\ counter.key.count < maxCreditsPerPayer =>
             /\ counter'.key.count = counter.key.count + 1
             /\ counter'.last.ret = counter.key.count + 1 ]_vars

\* The last call was an increment on a counter at the cap whose time to live
\* had run down: the count is unchanged and the time to live is full again.
C33_Witness ==
  /\ counter.last.op = "increment"
  /\ counter.last.count = maxCreditsPerPayer
  /\ counter.last.ttl < creditTtl /\ counter.last.ttl > 0
  /\ counter.last.ret = maxCreditsPerPayer
  /\ counter.key.count = maxCreditsPerPayer
  /\ counter.key.ttl = creditTtl

\* C34, as stated: every call that changes the count of a credit counter,
\* an increment or a decrement, sets its time to live to creditTtl.
C34_AsStated ==
  [][ ( /\ IncrementCreditCall \/ DecrementCreditCall
        /\ counter'.key.count # counter.key.count )
      => counter'.key.ttl = creditTtl ]_vars

\* C34, amended: every incrementCredit call that reaches the store sets the
\* time to live of the counter to creditTtl; a decrement leaves the time to
\* live as it is; so a counter expires creditTtl after the last
\* incrementCredit call that reached it, whatever was decremented since.
C34_OnlyIncrementsRefresh ==
  [][ /\ (IncrementCreditCall /\ storeUp /\ counter'.key.exists) => counter'.key.ttl = creditTtl
      /\ DecrementCreditCall =>
           /\ counter'.key.ttl = counter.key.ttl
           /\ counter'.key.exists = counter.key.exists
           /\ counter'.age = counter.age
      /\ counter'.key.exists => counter'.key.ttl = creditTtl - counter'.age
      /\ (counter.key.exists /\ ~counter'.key.exists) => counter'.age >= creditTtl ]_vars

\* A credit was consumed from a counter whose time to live had run down, and
\* the time to live is what it was before the decrement.
C34_Witness ==
  /\ counter.last.op = "decrement"
  /\ counter.last.ret = 1
  /\ counter.key.exists
  /\ counter.key.count = counter.last.count - 1
  /\ counter.key.ttl = counter.last.ttl
  /\ counter.key.ttl < creditTtl

\* C35, as stated: a request is served from the idempotency cache only on
\* the route of the request whose settlement wrote the record; on any other
\* route the cached paymentId is ignored and the request is verified.
C35_AsStated ==
  \A r, q \in Req :
    ( /\ r # q
      /\ req[q].didSettle /\ req[q].wroteCache
      /\ req[r].idemHit /\ req[r].paymentId = req[q].paymentId
      /\ req[r].paymentResponse = req[q].paymentResponse )
    => req[r].route = req[q].route

\* C36: a request served by consuming a credit writes no nonce record and no
\* idempotency record in any of its steps, and holds no reservation, receipt
\* or cache write of its own: the nonce of its envelope is left as it was
\* found, so the envelope passes the nonce check when it is presented again
\* (as long as no request settles with it).
C36_CreditLeavesNoRecord ==
  [][ \A r \in Req :
        (req'[r].pc # req[r].pc /\ (req[r].creditConsumed \/ req'[r].creditConsumed)) =>
          /\ nonces' = nonces
          /\ idem' = idem
          /\ ~req'[r].acquired /\ ~req'[r].wroteCache /\ ~req'[r].didSettle
          /\ req'[r].settlementTx = 0 /\ req'[r].paymentResponse = NoHeader ]_vars

\* An envelope redeemed a credit and the request was served; the same
\* envelope, presented again afterwards, passed the nonce check and holds the
\* reservation for an on-chain settlement that has not been submitted before.
C36_Witness ==
  \E r, q \in Req :
    /\ r # q
    /\ req[r].creditConsumed /\ req[r].pc = "done" /\ req[r].outcome = "proceed"
    /\ req[q].nonceKey = req[r].nonceKey /\ ~req[q].rival
    /\ req[q].verified /\ req[q].acquired /\ req[q].pc = "settle"
    /\ submits[req[q].nonceKey] = 0

\* C37: a request on the external-facilitator path has no nonce key: no step
\* of it writes a nonce record or takes it to the reservation, the
\* confirmation or the release, and once verified it goes to the settlement
\* call unless a credit is consumed; replay protection is the facilitator's.
C37_FacilitatorPathHasNoNonce ==
  [][ \A r \in Req :
        (req'[r].pc # req[r].pc /\ req'[r].net = "fac") =>
          /\ nonces' = nonces
          /\ req'[r].nonceKey = None
          /\ ~req'[r].acquired
          /\ req'[r].pc \notin {"reserve", "confirm", "release"}
          /\ (Leaves(r, "verify") /\ req'[r].verified) => req'[r].pc \in {"credit", "settle"}
          /\ Leaves(r, "credit") => req'[r].pc \in {"decrement", "settle"} ]_vars

\* Two concurrent requests on the facilitator path both passed verification
\* and both are at the call of the facilitator's settle endpoint.
C37_Witness ==
  \E r, q \in Req :
    /\ r # q
    /\ req[r].net = "fac" /\ req[q].net = "fac"
    /\ req[r].verified /\ req[q].verified
    /\ req[r].pc = "settle" /\ req[q].pc = "settle"
    /\ req[r].nonceKey = None /\ req[q].nonceKey = None
    /\ \A k \in NonceKeys : nonces[k] = NoNonce

\* r acquired its reservation and its settlement is over.
Terminated(r) == req[r].acquired /\ req[r].pc \notin {"settle", "confirm", "release"}

\* r's settlement is over and its reservation is resolved: the record is
\* confirmed with r's transaction, or r was answered 402 and the record is gone.
Resolved(r) ==
  LET rec == nonces[req[r].nonceKey]
  IN  /\ Terminated(r)
      /\ \/ Settled(r) /\ rec.status = "confirmed" /\ rec.txHash = req[r].settlementTx
         \/ ~Settled(r) /\ req[r].pc = "done" /\ req[r].status = 402 /\ rec.status = "absent"

\* C38: while the settlement call returns and the store is reachable, every
\* request that acquires a reservation goes on to confirm the record (after
\* a successful settlement) or to delete it (after a failed one), and no
\* request whose settlement is over leaves its own record pending: a pending
\* record under its key is then the reservation of another request.
C38_ReservationIsResolved ==
  /\ [](\A r \in Req :
          (Terminated(r) /\ nonces[req[r].nonceKey].status = "pending") => Holders(r) # {})
  /\ \A r \in Req : (req[r].acquired /\ req[r].pc = "settle") ~> Resolved(r)

\* Both endings in one run: the settlement of one request failed and its
\* record was deleted; the same envelope then acquired the reservation again,
\* settled, and its record is confirmed.
C38_Witness ==
  \E r, q \in Req :
    /\ r # q
    /\ req[r].acquired /\ ~Settled(r) /\ req[r].pc = "done" /\ req[r].reason = "Payment settlement failed"
    /\ req[q].acquired /\ Settled(q) /\ req[q].nonceKey = req[r].nonceKey /\ Resolved(q)

\* C39: a nonce record that exists changes only in a step of the request
\* that acquired it, which is then the only holder of the key and finds its
\* own pending record: its confirmation rewrites the record as confirmed and
\* its release deletes it.  No other step (a lost reservation, a failed
\* verification, a consumed credit) touches an existing record, and a
\* confirmed record never changes.
C39_OnlyTheHolderResolves ==
  [][ \A k \in NonceKeys :
        (nonces[k].status # "absent" /\ nonces'[k] # nonces[k]) =>
          /\ nonces[k].status = "pending"
          /\ \E r \in Req :
               /\ req[r].nonceKey = k /\ req[r].acquired
               /\ Holders(r) = {}
               /\ nonces[k] = pendingRecord(req[r].payerAddress, req[r].route)
               /\ \/ Leaves(r, "confirm") /\ nonces'[k].status = "confirmed"
                                          /\ nonces'[k].txHash = req[r].settlementTx
                  \/ Leaves(r, "release") /\ nonces'[k] = NoNonce ]_vars

\* One request lost the reservation to its rival and ended with 402; the
\* rival's record is untouched by that and is now confirmed with the rival's
\* transaction.
C39_Witness ==
  \E r, q \in Req :
    /\ r # q /\ req[r].rival /\ req[q].rival /\ req[r].nonceKey = req[q].nonceKey
    /\ req[q].pc = "done" /\ req[q].reason = NonceInUse /\ ~req[q].acquired
    /\ req[r].acquired /\ Settled(r) /\ Terminated(r)
    /\ nonces[req[r].nonceKey].status = "confirmed"
    /\ nonces[req[r].nonceKey].txHash = req[r].settlementTx

\* C40: for every credit key (payer, route), at every point, the requests
\* served by consuming a credit of the key are at most the credits issued
\* under it, and the credits issued are at most the requests keyed to that
\* payer and route that settled on-chain and whose response had a status in
\* creditOnStatusCodes; each such request issues at most one credit.  (The
\* payer of a request is the payer address the middleware derived for it.)
C40_CreditConservation ==
  /\ \A ck \in CreditKeys :
       /\ consumedCt[ck] <= issuedCt[ck]
       /\ issuedCt[ck] <= creditable[ck]
       /\ credits[ck] = issuedCt[ck] - consumedCt[ck]
  /\ \A r \in Req :
       req[r].newCount >= 0 => /\ req[r].pc = "done" /\ req[r].didSettle
                               /\ req[r].status \in creditOnStatusCodes

\* Under one key two settled requests earned a credit and one credit was
\* then redeemed, while another key of the same payer earned a credit that
\* was not issued and has none redeemed.
C40_Witness ==
  \E ck, other \in CreditKeys :
    /\ ck # other /\ ck[1] = other[1]
    /\ creditable[ck] = 2 /\ issuedCt[ck] = 2 /\ consumedCt[ck] = 1 /\ credits[ck] = 1
    /\ creditable[other] = 1 /\ issuedCt[other] = 0 /\ consumedCt[other] = 0

====
